---------------------------- MODULE Spec2Model ----------------------------
(***************************************************************************)
(* State-machine model of the Gambit chess engine core: the 120-square     *)
(* mailbox board with pawn bit-sets and piece lists, the move generator,   *)
(* the move executor (Move_Make / Move_Take / null moves), the position    *)
(* hasher, the transposition table and the iterative-deepening search.     *)
(*                                                                         *)
(* Zobrist keys: g_pieceKeys, g_sideKey and g_castleKeys are filled with   *)
(* rand() values.  A 64-bit key is modelled as the set of the identifiers  *)
(* of the random keys that are XOR-ed into it; XOR is then the symmetric   *)
(* difference of two such sets (self-inverse, commutative, associative).   *)
(* Pawn bit-sets are modelled as sets of 64-based square numbers.          *)
(***************************************************************************)
EXTENDS Integers, Sequences, FiniteSets, TLC

VARIABLES board,   \* the ChessBoard aggregate
          info,    \* the SearchInfo aggregate (stop flag, node counter, ...)
          last,    \* record of the last operation: its name, inputs, result
                   \* and the board as it was before the operation
          stored,  \* what the last HashTable_StoreEntry into each slot was given
          search,  \* the search in flight: where Search_Position or Search_GetBestMove
                   \* is, and the frames of AlphaBeta and Quiescence that are open
          gui      \* the GUI aggregate of the SDL front end

vars == <<board, info, last, stored, search, gui>>

-----------------------------------------------------------------------------
(* Bounds of the model *)

\* Move_Make / MakeNullMove are explored while hisPly is below this bound
MaxHisPly == 2
\* the number of executor calls explored from a set-up position
MaxOps == 4
\* the number of front-end calls explored from a set-up position
MaxFrontOps == 3
\* the number of executor calls and of stores explored around the hash table
MaxHashOps == 2
MaxStores == 1
MaxSearchOps == 2
\* the number of allocations and moves explored around HashTable_Init
MaxAllocOps == 3
\* the number of moves and commands of a front end explored around a new game
MaxGameOps == 3
\* the number of moves played before the result of a game is asked for, the plies
\* of the long game some of them start from, and the most knights and the most
\* bishops a side holds where the material is judged
MaxResultOps == 8
MaxShuffle == 100
MaxMinors == 2
\* the depth limit of the search that is stopped once it is under way
MaxStopDepth == 4
\* the number of moves played from the starting position before the result is asked for
MaxMateOps == 4
\* the number of moves played before a position is evaluated and mirrored
MaxEvalOps == 1
\* the number of moves played from a position with castling rights
MaxCastleOps == 2
\* the number of node counts run one after the other, and their greatest depth
MaxPerftOps == 1
MaxPerftDepth == 4
\* the depth limit of the searches that reach null moves
MaxDeepDepth == 4
\* the plies before CHESS_MAX_SEARCH_DEPTH from which a search is entered at the end
\* of a long line, and the largest depth it is entered with
MaxLineBack == 2
MaxLineDepth == 5
\* the number of clicks, keys and timer updates explored in a game of the GUI
MaxGuiOps == 4
\* the number of killers and history scores written at a node whose moves are ordered
MaxOrderOps == 2
\* the depth limit of the searches that meet mates below the root
MaxBoundDepth == 3
MaxDepth == 2

-----------------------------------------------------------------------------
(* Program constants: types_definitions.h *)

CHESS_BOARD_SQUARE_NUM == 120
CHESS_MAX_GAME_MOVES == 2048
CHESS_MAX_SEARCH_DEPTH == 64
CHESS_INFINITE == 30000
CHESS_IS_MATE == CHESS_INFINITE - CHESS_MAX_SEARCH_DEPTH

EMPTY == 0
PIECE_TYPE_WHITE_PAWN == 1
PIECE_TYPE_WHITE_KNIGHT == 2
PIECE_TYPE_WHITE_BISHOP == 3
PIECE_TYPE_WHITE_ROOK == 4
PIECE_TYPE_WHITE_QUEEN == 5
PIECE_TYPE_WHITE_KING == 6
PIECE_TYPE_BLACK_PAWN == 7
PIECE_TYPE_BLACK_KNIGHT == 8
PIECE_TYPE_BLACK_BISHOP == 9
PIECE_TYPE_BLACK_ROOK == 10
PIECE_TYPE_BLACK_QUEEN == 11
PIECE_TYPE_BLACK_KING == 12

RANK_TYPE_1 == 0
RANK_TYPE_2 == 1
RANK_TYPE_7 == 6
RANK_TYPE_8 == 7
FILE_TYPE_A == 0

COLOR_TYPE_WHITE == 0
COLOR_TYPE_BLACK == 1
COLOR_TYPE_BOTH == 2

A1 == 21
B1 == 22
C1 == 23
D1 == 24
E1 == 25
F1 == 26
G1 == 27
H1 == 28
A8 == 91
B8 == 92
C8 == 93
D8 == 94
E8 == 95
F8 == 96
G8 == 97
H8 == 98
NO_SQ == 99
OFFBOARD == 100

BOOL_TYPE_FALSE == 0
BOOL_TYPE_TRUE == 1

CASTLE_TYPE_WKCA == 1
CASTLE_TYPE_WQCA == 2
CASTLE_TYPE_BKCA == 4
CASTLE_TYPE_BQCA == 8

HFNONE == 0
HFALPHA == 1
HFBETA == 2
HFEXACT == 3

NOMOVE == 0

CHESS_MAX_HASH == 1024

MODE_TYPE_UCI == 0
MODE_TYPE_XBOARD == 1
MODE_TYPE_CONSOLE == 2

\* 0x40000, 0x80000, 0x1000000: the flag bits of a packed move
MFLAGEP == 262144
MFLAGPS == 524288
MFLAGCA == 16777216

Pieces == PIECE_TYPE_WHITE_PAWN..PIECE_TYPE_BLACK_KING

-----------------------------------------------------------------------------
(* Lookup tables: data.c and utils_init.c *)

\* C arrays are 0-based: Tab(t, i) reads element i of the array written as a tuple
Tab(t, i) == t[i + 1]

B(x) == IF x THEN BOOL_TYPE_TRUE ELSE BOOL_TYPE_FALSE

PieceBig == <<0, 0, 1, 1, 1, 1, 1, 0, 1, 1, 1, 1, 1>>
PieceMaj == <<0, 0, 0, 0, 1, 1, 1, 0, 0, 0, 1, 1, 1>>
PieceMin == <<0, 0, 1, 1, 0, 0, 0, 0, 1, 1, 0, 0, 0>>
g_pieceVal == <<0, 100, 325, 325, 550, 1000, 50000, 100, 325, 325, 550, 1000, 50000>>
g_pieceCol == <<2, 0, 0, 0, 0, 0, 0, 1, 1, 1, 1, 1, 1>>
g_piecePawn == <<0, 1, 0, 0, 0, 0, 0, 1, 0, 0, 0, 0, 0>>
g_pieceKnight == <<0, 0, 1, 0, 0, 0, 0, 0, 1, 0, 0, 0, 0>>
g_pieceKing == <<0, 0, 0, 0, 0, 0, 1, 0, 0, 0, 0, 0, 1>>
g_pieceRookQueen == <<0, 0, 0, 0, 1, 1, 0, 0, 0, 0, 1, 1, 0>>
g_pieceBishopQueen == <<0, 0, 0, 1, 0, 1, 0, 0, 0, 1, 0, 1, 0>>

FILE_RANK_TO_SQUARE(f, r) == (21 + f) + (r * 10)

\* Init_FilesRanksBoard: file and rank of every mailbox square, OFFBOARD on the padding
g_filesBoard == [sq \in 0..119 |->
    IF sq \in 21..98 /\ (sq % 10) \in 1..8 THEN (sq % 10) - 1 ELSE OFFBOARD]
g_ranksBoard == [sq \in 0..119 |->
    IF sq \in 21..98 /\ (sq % 10) \in 1..8 THEN (sq \div 10) - 2 ELSE OFFBOARD]

\* Init_Square120To64
g_square64To120 == [sq64 \in 0..63 |-> FILE_RANK_TO_SQUARE(sq64 % 8, sq64 \div 8)]
g_square120To64 == [sq \in 0..119 |->
    IF g_filesBoard[sq] = OFFBOARD THEN 65 ELSE g_ranksBoard[sq] * 8 + g_filesBoard[sq]]

SQUARE_64_TO_120(sq64) == g_square64To120[sq64]
SQUARE_120_TO_64(sq120) == g_square120To64[sq120]

SqOnBoard(sq) == g_filesBoard[sq] # OFFBOARD
SQOFFBOARD(sq) == g_filesBoard[sq] = OFFBOARD
PieceValid(p) == p >= PIECE_TYPE_WHITE_PAWN /\ p <= PIECE_TYPE_BLACK_KING
SideValid(s) == s = COLOR_TYPE_WHITE \/ s = COLOR_TYPE_BLACK

\* Init_HashKeys: identifiers of the random keys (one per table cell)
g_pieceKeys(piece, sq) == piece * 120 + sq
g_sideKey == 13 * 120
g_castleKeys(perm) == 13 * 120 + 1 + perm

\* a ^= key
Xor(a, key) == IF key \in a THEN a \ {key} ELSE a \cup {key}

\* BITBOARD_SET_BIT / BITBOARD_CLEAR_BIT on a bit-set
BITBOARD_SET_BIT(bb, sq64) == bb \cup {sq64}
\* a BITBOARD_CLEAR_BIT that leaves the bit set
BITBOARD_CLEAR_BIT_Kept(bb, sq64) == bb
BITBOARD_CLEAR_BIT(bb, sq64) == bb \ {sq64}

\* side ^ 1
Flip(side) == IF side = 0 THEN 1 ELSE IF side = 1 THEN 0 ELSE IF side = 2 THEN 3 ELSE 2

\* a & b on the 4-bit castling rights
RECURSIVE BitAnd(_, _)
BitAnd(a, b) == IF a = 0 \/ b = 0 THEN 0
                ELSE (IF a % 2 = 1 /\ b % 2 = 1 THEN 1 ELSE 0) + 2 * BitAnd(a \div 2, b \div 2)
RECURSIVE BitOr(_, _)
BitOr(a, b) == IF a = 0 THEN b ELSE IF b = 0 THEN a
               ELSE (IF a % 2 = 1 \/ b % 2 = 1 THEN 1 ELSE 0) + 2 * BitOr(a \div 2, b \div 2)

-----------------------------------------------------------------------------
(* Move codec: moves_generation.c MOVE and types_definitions.h accessors *)

MOVE(f, t, ca, pro, fl) == f + t * 128 + ca * 16384 + pro * 1048576 + fl
MOVE_GET_FROM_SQUARE(m) == m % 128
MOVE_GET_TO_SQUARE(m) == (m \div 128) % 128
MOVE_GET_CAPTURED(m) == (m \div 16384) % 16
MOVE_GET_PROMOTED(m) == (m \div 1048576) % 16
HasFlag(m, flag) == (m \div flag) % 2 = 1

-----------------------------------------------------------------------------
(* The board aggregate: types_definitions.h ChessBoard and UndoMove *)

\* The large arrays of the board (history[2048], PvArray[64], searchKillers[2][64],
\* searchHistory[13][120], the hash table) are kept sparse: a function whose domain is
\* the set of cells written so far; a cell never written reads as zeroed memory.
\* Body applied to the value of v, v evaluated one time
Once(v, Body(_)) == CHOOSE x \in {Body(r) : r \in {v}} : TRUE

Get(array, i, zero) == IF i \in DOMAIN array THEN array[i] ELSE zero
Put(array, i, v) == [j \in (DOMAIN array) \cup {i} |-> IF j = i THEN v ELSE array[j]]

UndoMove == [move |-> NOMOVE, castlePerm |-> 0, enPas |-> 0, fiftyMove |-> 0, posKey |-> {}]

HashEntry == [posKey |-> {}, move |-> NOMOVE, score |-> 0, depth |-> 0, flags |-> HFNONE]

\* the memory of a ChessBoard before Board_Reset has run on it
ChessBoard == [
    pieces |-> [i \in 0..(CHESS_BOARD_SQUARE_NUM - 1) |-> EMPTY],
    pawns |-> [c \in 0..2 |-> {}],
    KingSq |-> [c \in 0..1 |-> 0],
    side |-> 0, enPas |-> 0, fiftyMove |-> 0, ply |-> 0, hisPly |-> 0,
    castlePerm |-> 0, posKey |-> {},
    pieceCount |-> [p \in 0..12 |-> 0],
    bigPce |-> [c \in 0..1 |-> 0], majPce |-> [c \in 0..1 |-> 0],
    minPce |-> [c \in 0..1 |-> 0], material |-> [c \in 0..1 |-> 0],
    history |-> <<>>,
    pList |-> [p \in 0..12 |-> [i \in 0..9 |-> 0]],
    capturedWhite |-> [i \in 0..15 |-> EMPTY],
    capturedBlack |-> [i \in 0..15 |-> EMPTY],
    capturedWhiteCount |-> 0, capturedBlackCount |-> 0,
    HashTable |-> [numEntries |-> 0, pTable |-> <<>>],
    PvArray |-> <<>>, searchHistory |-> <<>>, searchKillers |-> <<>> ]

\* board->history[i]
History(b, i) == Get(b.history, i, UndoMove)

-----------------------------------------------------------------------------
(* Position hasher: board_hashkeys.c *)

\* the mailbox indices from squareIndex on that hold a piece (the loops over the
\* mailbox do nothing at the other indices and are stepped straight to these)
OccupiedFrom(pieces, squareIndex) ==
    {i \in squareIndex..(CHESS_BOARD_SQUARE_NUM - 1) :
        pieces[i] # NO_SQ /\ pieces[i] # EMPTY /\ pieces[i] # OFFBOARD}

MinOf(S) == CHOOSE x \in S : \A y \in S : x <= y

RECURSIVE PieceKeyFold(_, _, _)
PieceKeyFold(pieces, squareIndex, finalKey) ==
    LET rest == OccupiedFrom(pieces, squareIndex)
    IN IF rest = {} THEN finalKey
       ELSE LET sq == MinOf(rest)
            IN PieceKeyFold(pieces, sq + 1, Xor(finalKey, g_pieceKeys(pieces[sq], sq)))

Board_GeneratePositionKey(b) ==
    LET k1 == PieceKeyFold(b.pieces, 0, {})
        k2 == IF b.side = COLOR_TYPE_WHITE THEN Xor(k1, g_sideKey) ELSE k1
        k3 == IF b.enPas # NO_SQ THEN Xor(k2, g_pieceKeys(EMPTY, b.enPas)) ELSE k2
    IN Xor(k3, g_castleKeys(b.castlePerm))

-----------------------------------------------------------------------------
(* Board set-up: board_representation.c *)

\* a Board_Reset that leaves the fifty-move counter as it is
Board_ResetClockKept(b) ==
    [b EXCEPT
        !.pieces = [i \in 0..(CHESS_BOARD_SQUARE_NUM - 1) |->
                        IF \E sq64 \in 0..63 : SQUARE_64_TO_120(sq64) = i
                        THEN EMPTY ELSE OFFBOARD],
        !.bigPce = [c \in 0..1 |-> 0], !.majPce = [c \in 0..1 |-> 0],
        !.minPce = [c \in 0..1 |-> 0], !.material = [c \in 0..1 |-> 0],
        !.pawns = [c \in 0..2 |-> {}],
        !.pieceCount = [p \in 0..12 |-> 0],
        !.KingSq = [c \in 0..1 |-> NO_SQ],
        !.side = COLOR_TYPE_BOTH, !.enPas = NO_SQ,
        !.ply = 0, !.hisPly = 0, !.castlePerm = 0, !.posKey = {},
        !.capturedWhiteCount = 0, !.capturedBlackCount = 0,
        !.capturedWhite = [i \in 0..15 |-> EMPTY],
        !.capturedBlack = [i \in 0..15 |-> EMPTY]]

Board_Reset(b) ==
    [b EXCEPT
        !.pieces = [i \in 0..(CHESS_BOARD_SQUARE_NUM - 1) |->
                        IF \E sq64 \in 0..63 : SQUARE_64_TO_120(sq64) = i
                        THEN EMPTY ELSE OFFBOARD],
        !.bigPce = [c \in 0..1 |-> 0], !.majPce = [c \in 0..1 |-> 0],
        !.minPce = [c \in 0..1 |-> 0], !.material = [c \in 0..1 |-> 0],
        !.pawns = [c \in 0..2 |-> {}],
        !.pieceCount = [p \in 0..12 |-> 0],
        !.KingSq = [c \in 0..1 |-> NO_SQ],
        !.side = COLOR_TYPE_BOTH, !.enPas = NO_SQ, !.fiftyMove = 0,
        !.ply = 0, !.hisPly = 0, !.castlePerm = 0, !.posKey = {},
        !.capturedWhiteCount = 0, !.capturedBlackCount = 0,
        !.capturedWhite = [i \in 0..15 |-> EMPTY],
        !.capturedBlack = [i \in 0..15 |-> EMPTY]]

\* the body of the loop of Board_UpdateListsMaterial for one mailbox index
UpdateListsMaterialAt(b, index) ==
    LET piece == b.pieces[index]
        colour == Tab(g_pieceCol, piece)
        sq64 == SQUARE_120_TO_64(index)
    IN IF piece = OFFBOARD \/ piece = EMPTY THEN b
       ELSE [b EXCEPT
            !.bigPce[colour] = @ + Tab(PieceBig, piece),
            !.minPce[colour] = @ + Tab(PieceMin, piece),
            !.majPce[colour] = @ + Tab(PieceMaj, piece),
            !.material[colour] = @ + Tab(g_pieceVal, piece),
            !.pList[piece][b.pieceCount[piece]] = index,
            !.pieceCount[piece] = @ + 1,
            !.KingSq[COLOR_TYPE_WHITE] = IF piece = PIECE_TYPE_WHITE_KING THEN index ELSE @,
            !.KingSq[COLOR_TYPE_BLACK] = IF piece = PIECE_TYPE_BLACK_KING THEN index ELSE @,
            !.pawns[COLOR_TYPE_WHITE] = IF piece = PIECE_TYPE_WHITE_PAWN
                                        THEN BITBOARD_SET_BIT(@, sq64) ELSE @,
            !.pawns[COLOR_TYPE_BLACK] = IF piece = PIECE_TYPE_BLACK_PAWN
                                        THEN BITBOARD_SET_BIT(@, sq64) ELSE @,
            !.pawns[COLOR_TYPE_BOTH] = IF piece \in {PIECE_TYPE_WHITE_PAWN, PIECE_TYPE_BLACK_PAWN}
                                       THEN BITBOARD_SET_BIT(@, sq64) ELSE @]

RECURSIVE UpdateListsMaterialFrom(_, _)
UpdateListsMaterialFrom(b, index) ==
    LET rest == OccupiedFrom(b.pieces, index)
        Updated(updated) == UpdateListsMaterialFrom(updated, MinOf(rest) + 1)
    IN IF rest = {} THEN b
       ELSE Once(UpdateListsMaterialAt(b, MinOf(rest)), Updated)

Board_UpdateListsMaterial(b) == UpdateListsMaterialFrom(b, 0)

\* *fen for a text held as a tuple of one-character strings; "NUL" past its end
CharAt(fen, i) == IF i <= Len(fen) THEN fen[i] ELSE "NUL"

\* c - base for the characters of the alphabet starting at base
CharMinus(c, alphabet) == (CHOOSE k \in 1..Len(alphabet) : alphabet[k] = c) - 1

FenPieceChars == <<"P", "N", "B", "R", "Q", "K", "p", "n", "b", "r", "q", "k">>
FenDigits == <<"0", "1", "2", "3", "4", "5", "6", "7", "8">>
FileChars == <<"a", "b", "c", "d", "e", "f", "g", "h">>
RankChars == <<"1", "2", "3", "4", "5", "6", "7", "8">>
IsIn(c, alphabet) == \E k \in 1..Len(alphabet) : alphabet[k] = c

\* the inner for loop of the placement phase: count squares from (rank, file)
RECURSIVE FenPlace(_, _, _, _, _)
FenPlace(b, piece, rank, file, count) ==
    IF count = 0 THEN b
    ELSE LET sq120 == SQUARE_64_TO_120(rank * 8 + file)
         IN FenPlace(IF piece # EMPTY THEN [b EXCEPT !.pieces[sq120] = piece] ELSE b,
                     piece, rank, file + 1, count - 1)

\* one round of the while loop of the placement phase on st: the board, the 1-based
\* position pos of *fen, the rank and the file, whether the FEN error return was
\* taken and whether the loop has ended
FenRound(fen, st) ==
    LET c == CharAt(fen, st.pos)
    IN IF st.done THEN st
       ELSE IF ~(st.rank >= RANK_TYPE_1 /\ c # "NUL") THEN [st EXCEPT !.done = TRUE]
       ELSE IF IsIn(c, FenPieceChars)
            THEN [st EXCEPT !.board = FenPlace(@, CharMinus(c, FenPieceChars) + 1,
                                               st.rank, st.file, 1),
                            !.pos = @ + 1, !.file = @ + 1]
       ELSE IF IsIn(c, FenDigits) /\ c # "0"
            THEN [st EXCEPT !.pos = @ + 1, !.file = @ + CharMinus(c, FenDigits)]
       ELSE IF c = "/" \/ c = " "
            THEN [st EXCEPT !.pos = @ + 1, !.rank = @ - 1, !.file = FILE_TYPE_A]
       ELSE [st EXCEPT !.error = TRUE, !.done = TRUE]

\* the while loop of the placement phase: up to rounds rounds of it, run in two halves
RECURSIVE FenPlacement(_, _, _)
FenPlacement(fen, st, rounds) ==
    LET Rest(done) == FenPlacement(fen, done, rounds - (rounds \div 2))
    IN IF rounds <= 1 THEN FenRound(fen, st)
       ELSE Once(FenPlacement(fen, st, rounds \div 2), Rest)

\* the castling-rights loop: at most four characters, stopping at a blank
RECURSIVE FenCastle(_, _, _, _)
FenCastle(fen, pos, i, perm) ==
    LET c == CharAt(fen, pos)
    IN IF i >= 4 \/ c = " " THEN [pos |-> pos, perm |-> perm]
       ELSE FenCastle(fen, pos + 1, i + 1,
                CASE c = "K" -> BitOr(perm, CASTLE_TYPE_WKCA)
                  [] c = "Q" -> BitOr(perm, CASTLE_TYPE_WQCA)
                  [] c = "k" -> BitOr(perm, CASTLE_TYPE_BKCA)
                  [] c = "q" -> BitOr(perm, CASTLE_TYPE_BQCA)
                  [] OTHER -> perm)

\* Board_ParseFromFEN: ret is the function's return value, board the board it leaves
Board_ParseFromFEN(fen, b) ==
    LET Side(x, pos) == [x EXCEPT !.side = IF CharAt(fen, pos) = "w"
                                           THEN COLOR_TYPE_WHITE ELSE COLOR_TYPE_BLACK]
        EnPas(x, ep) ==
            IF CharAt(fen, ep) # "-"
            THEN [x EXCEPT !.enPas =
                    FILE_RANK_TO_SQUARE(CharMinus(CharAt(fen, ep), FileChars),
                                        CharMinus(CharAt(fen, ep + 1), RankChars))]
            ELSE x
        Castle(x, ca) == EnPas([x EXCEPT !.castlePerm = ca.perm], ca.pos + 1)
        Key(x) == [x EXCEPT !.posKey = Board_GeneratePositionKey(x)]
        Fields(x, pos) ==
            Board_UpdateListsMaterial(Key(Castle(x, FenCastle(fen, pos + 2, 0, x.castlePerm))))
        Parsed(placed) ==
            IF placed.error THEN [ret |-> -1, board |-> placed.board]
            ELSE [ret |-> 0, board |-> Fields(Side(placed.board, placed.pos), placed.pos)]
    IN Once(FenPlacement(fen, [board |-> Board_Reset(b), pos |-> 1, rank |-> RANK_TYPE_8,
                                file |-> FILE_TYPE_A, error |-> FALSE, done |-> FALSE],
                         Len(fen) + 1),
            Parsed)

-----------------------------------------------------------------------------
(* Attack oracle: attack_detection.c *)

KnDir == <<-8, -19, -21, -12, 8, 19, 21, 12>>
RkDir == <<-1, -10, 1, 10>>
BiDir == <<-9, -11, 11, 9>>
KiDir == <<-1, -10, 1, 10, -9, -11, 11, 9>>

\* the while loop over one ray: TRUE iff the first piece met from t_sq on, walking
\* in direction, is of the given kind (rook/queen or bishop/queen) and of side
RECURSIVE SlideAttack(_, _, _, _, _)
SlideAttack(pieces, t_sq, direction, kind, side) ==
    LET piece == pieces[t_sq]
    IN IF piece = OFFBOARD THEN FALSE
       ELSE IF piece # EMPTY
            THEN Tab(kind, piece) = 1 /\ Tab(g_pieceCol, piece) = side
       ELSE SlideAttack(pieces, t_sq + direction, direction, kind, side)

Attack_IsSquareAttacked(squareIndex, side, b) ==
    \/ /\ side = COLOR_TYPE_WHITE
       /\ \/ b.pieces[squareIndex - 11] = PIECE_TYPE_WHITE_PAWN
          \/ b.pieces[squareIndex - 9] = PIECE_TYPE_WHITE_PAWN
    \/ /\ side # COLOR_TYPE_WHITE
       /\ \/ b.pieces[squareIndex + 11] = PIECE_TYPE_BLACK_PAWN
          \/ b.pieces[squareIndex + 9] = PIECE_TYPE_BLACK_PAWN
    \/ \E index \in 1..8 :
          LET piece == b.pieces[squareIndex + KnDir[index]]
          IN piece # OFFBOARD /\ Tab(g_pieceKnight, piece) = 1 /\ Tab(g_pieceCol, piece) = side
    \/ \E index \in 1..4 :
          SlideAttack(b.pieces, squareIndex + RkDir[index], RkDir[index], g_pieceRookQueen, side)
    \/ \E index \in 1..4 :
          SlideAttack(b.pieces, squareIndex + BiDir[index], BiDir[index], g_pieceBishopQueen, side)
    \/ \E index \in 1..8 :
          LET piece == b.pieces[squareIndex + KiDir[index]]
          IN piece # OFFBOARD /\ Tab(g_pieceKing, piece) = 1 /\ Tab(g_pieceCol, piece) = side

-----------------------------------------------------------------------------
(* Move executor: moves_execution.c *)

\* a CastlePerm table whose h1 cell keeps every right
CastlePermKeptH1 == [sq \in 0..(CHESS_BOARD_SQUARE_NUM - 1) |->
    CASE sq = A1 -> 13 [] sq = E1 -> 12
      [] sq = A8 -> 7  [] sq = E8 -> 3  [] sq = H8 -> 11
      [] OTHER -> 15]

CastlePerm == [sq \in 0..(CHESS_BOARD_SQUARE_NUM - 1) |->
    CASE sq = A1 -> 13 [] sq = E1 -> 12 [] sq = H1 -> 14
      [] sq = A8 -> 7  [] sq = E8 -> 3  [] sq = H8 -> 11
      [] OTHER -> 15]

HASH_PCE(b, piece, sq) == [b EXCEPT !.posKey = Xor(@, g_pieceKeys(piece, sq))]
HASH_CA(b) == [b EXCEPT !.posKey = Xor(@, g_castleKeys(b.castlePerm))]
HASH_SIDE(b) == [b EXCEPT !.posKey = Xor(@, g_sideKey)]
\* a HASH_EP that leaves the key alone
HASH_EP_Forgotten(b) == b
HASH_EP(b) == [b EXCEPT !.posKey = Xor(@, g_pieceKeys(EMPTY, b.enPas))]

\* a list search that always answers the first entry
ListIndexOfFirst(list, count, sq) == 0

\* the search loops of ClearPiece and MovePiece: the first index below count
\* whose list entry is sq, or -1
ListIndexOf(list, count, sq) ==
    IF \E index \in 0..(count - 1) : list[index] = sq
    THEN CHOOSE index \in 0..(count - 1) :
            /\ list[index] = sq
            /\ \A j \in 0..(index - 1) : list[j] # sq
    ELSE -1

ClearPiece(squareIndex, b) ==
    LET piece == b.pieces[squareIndex]
        color == Tab(g_pieceCol, piece)
        sq64 == SQUARE_120_TO_64(squareIndex)
        Board(x) == [x EXCEPT !.pieces[squareIndex] = EMPTY,
                              !.material[color] = @ - Tab(g_pieceVal, piece)]
        Counts(x) ==
            IF Tab(PieceBig, piece) = 1
            THEN [x EXCEPT
                    !.bigPce[color] = @ - 1,
                    !.majPce[color] = IF Tab(PieceMaj, piece) = 1 THEN @ - 1 ELSE @,
                    !.minPce[color] = IF Tab(PieceMaj, piece) = 1 THEN @ ELSE @ - 1]
            ELSE [x EXCEPT
                    !.pawns[color] = BITBOARD_CLEAR_BIT(@, sq64),
                    !.pawns[COLOR_TYPE_BOTH] = BITBOARD_CLEAR_BIT(@, sq64)]
        List(x, t_pceNum) ==
            [x EXCEPT !.pieceCount[piece] = @ - 1,
                      !.pList[piece][t_pceNum] = x.pList[piece][x.pieceCount[piece] - 1]]
    IN List(Counts(Board(HASH_PCE(b, piece, squareIndex))),
            ListIndexOf(b.pList[piece], b.pieceCount[piece], squareIndex))

\* an AddPiece that leaves the material as it was
AddPieceUnvalued(squareIndex, b, piece) ==
    LET color == Tab(g_pieceCol, piece)
        sq64 == SQUARE_120_TO_64(squareIndex)
        Board(x) == [x EXCEPT !.pieces[squareIndex] = piece]
        Counts(x) ==
            IF Tab(PieceBig, piece) = 1
            THEN [x EXCEPT
                    !.bigPce[color] = @ + 1,
                    !.majPce[color] = IF Tab(PieceMaj, piece) = 1 THEN @ + 1 ELSE @,
                    !.minPce[color] = IF Tab(PieceMaj, piece) = 1 THEN @ ELSE @ + 1]
            ELSE [x EXCEPT
                    !.pawns[color] = BITBOARD_SET_BIT(@, sq64),
                    !.pawns[COLOR_TYPE_BOTH] = BITBOARD_SET_BIT(@, sq64)]
        List(x) == [x EXCEPT !.pList[piece][x.pieceCount[piece]] = squareIndex,
                             !.pieceCount[piece] = @ + 1]
    IN List(Counts(Board(HASH_PCE(b, piece, squareIndex))))

AddPiece(squareIndex, b, piece) ==
    LET color == Tab(g_pieceCol, piece)
        sq64 == SQUARE_120_TO_64(squareIndex)
        Board(x) == [x EXCEPT !.pieces[squareIndex] = piece]
        Counts(x) ==
            IF Tab(PieceBig, piece) = 1
            THEN [x EXCEPT
                    !.bigPce[color] = @ + 1,
                    !.majPce[color] = IF Tab(PieceMaj, piece) = 1 THEN @ + 1 ELSE @,
                    !.minPce[color] = IF Tab(PieceMaj, piece) = 1 THEN @ ELSE @ + 1]
            ELSE [x EXCEPT
                    !.pawns[color] = BITBOARD_SET_BIT(@, sq64),
                    !.pawns[COLOR_TYPE_BOTH] = BITBOARD_SET_BIT(@, sq64)]
        List(x) == [x EXCEPT !.material[color] = @ + Tab(g_pieceVal, piece),
                             !.pList[piece][x.pieceCount[piece]] = squareIndex,
                             !.pieceCount[piece] = @ + 1]
    IN List(Counts(Board(HASH_PCE(b, piece, squareIndex))))

MovePiece(from, to, b) ==
    LET piece == b.pieces[from]
        color == Tab(g_pieceCol, piece)
        Board(x) == [x EXCEPT !.pieces[from] = EMPTY, !.pieces[to] = piece]
        Pawns(x) ==
            IF Tab(PieceBig, piece) # 1
            THEN [x EXCEPT
                    !.pawns[color] = BITBOARD_SET_BIT(
                          BITBOARD_CLEAR_BIT(@, SQUARE_120_TO_64(from)), SQUARE_120_TO_64(to)),
                    !.pawns[COLOR_TYPE_BOTH] = BITBOARD_SET_BIT(
                          BITBOARD_CLEAR_BIT(@, SQUARE_120_TO_64(from)), SQUARE_120_TO_64(to))]
            ELSE x
        List(x, index) == IF index >= 0 THEN [x EXCEPT !.pList[piece][index] = to] ELSE x
    IN List(Pawns(Board(HASH_PCE(HASH_PCE(b, piece, from), piece, to))),
            ListIndexOf(b.pList[piece], b.pieceCount[piece], from))

\* the switch on the king's destination of a castle move: where the rook stands
\* before the move and where after it
CastleRookFrom(to) ==
    CASE to = C1 -> A1 [] to = C8 -> A8 [] to = G1 -> H1 [] to = G8 -> H8
CastleRookTo(to) ==
    CASE to = C1 -> D1 [] to = C8 -> D8 [] to = G1 -> F1 [] to = G8 -> F8

IsWhitePiece(p) == p >= PIECE_TYPE_WHITE_PAWN /\ p <= PIECE_TYPE_WHITE_KING
IsBlackPiece(p) == p >= PIECE_TYPE_BLACK_PAWN /\ p <= PIECE_TYPE_BLACK_KING

\* a Move_Take that never puts a captured piece back
TakeCapturedForgotten(b, to, captured) == b

\* the part of Move_Take that restores a captured piece and its captured-piece count
TakeCaptured(b, to, captured) ==
    LET Count(x) ==
            IF IsWhitePiece(captured)
            THEN [x EXCEPT !.capturedWhiteCount = IF @ > 0 THEN @ - 1 ELSE @]
            ELSE IF IsBlackPiece(captured)
            THEN [x EXCEPT !.capturedBlackCount = IF @ > 0 THEN @ - 1 ELSE @]
            ELSE x
    IN IF captured # EMPTY THEN Count(AddPiece(to, b, captured)) ELSE b

Move_Take(b) ==
    LET hp == b.hisPly - 1
        u == History(b, hp)
        move == u.move
        from == MOVE_GET_FROM_SQUARE(move)
        to == MOVE_GET_TO_SQUARE(move)
        promoted == MOVE_GET_PROMOTED(move)
        Counters(x) == [x EXCEPT !.hisPly = hp, !.ply = @ - 1]
        HashOut(x) == HASH_CA(IF x.enPas # NO_SQ THEN HASH_EP(x) ELSE x)
        Restore(x) == [x EXCEPT !.castlePerm = u.castlePerm, !.fiftyMove = u.fiftyMove,
                                !.enPas = u.enPas]
        FlipSide(x) == HASH_SIDE([x EXCEPT !.side = Flip(@)])
        Special(x) ==
            IF HasFlag(move, MFLAGEP)
            THEN AddPiece(IF x.side = COLOR_TYPE_WHITE THEN to - 10 ELSE to + 10, x,
                          IF x.side = COLOR_TYPE_WHITE THEN PIECE_TYPE_BLACK_PAWN
                                                       ELSE PIECE_TYPE_WHITE_PAWN)
            ELSE IF HasFlag(move, MFLAGCA)
            THEN MovePiece(CastleRookTo(to), CastleRookFrom(to), x)
            ELSE x
        King(x) == IF Tab(g_pieceKing, x.pieces[from]) = 1
                   THEN [x EXCEPT !.KingSq[x.side] = from] ELSE x
        Promoted(x) ==
            IF promoted # EMPTY
            THEN AddPiece(from, ClearPiece(from, x),
                          IF Tab(g_pieceCol, promoted) = COLOR_TYPE_WHITE
                          THEN PIECE_TYPE_WHITE_PAWN ELSE PIECE_TYPE_BLACK_PAWN)
            ELSE x
    IN Promoted(TakeCaptured(King(MovePiece(to, from,
            Special(FlipSide(HashOut(Restore(HashOut(Counters(b)))))))),
            to, MOVE_GET_CAPTURED(move)))

\* the captured-piece bookkeeping of Move_Make
TrackCaptured(b, captured) ==
    IF IsWhitePiece(captured)
    THEN IF b.capturedWhiteCount < 16
         THEN [b EXCEPT !.capturedWhite[b.capturedWhiteCount] = captured,
                        !.capturedWhiteCount = @ + 1]
         ELSE b
    ELSE IF IsBlackPiece(captured)
    THEN IF b.capturedBlackCount < 16
         THEN [b EXCEPT !.capturedBlack[b.capturedBlackCount] = captured,
                        !.capturedBlackCount = @ + 1]
         ELSE b
    ELSE b

\* Move_Make up to and including the side flip, before the legality test
MakeApply(b, move) ==
    LET from == MOVE_GET_FROM_SQUARE(move)
        to == MOVE_GET_TO_SQUARE(move)
        side == b.side
        hp == b.hisPly
        captured == MOVE_GET_CAPTURED(move)
        promotedPiece == MOVE_GET_PROMOTED(move)
        SaveKey(x) == [x EXCEPT !.history =
                            Put(@, hp, [History(x, hp) EXCEPT !.posKey = x.posKey])]
        Special(x) ==
            IF HasFlag(move, MFLAGEP)
            THEN ClearPiece(IF side = COLOR_TYPE_WHITE THEN to - 10 ELSE to + 10, x)
            ELSE IF HasFlag(move, MFLAGCA)
            THEN MovePiece(CastleRookFrom(to), CastleRookTo(to), x)
            ELSE x
        HashOut(x) == HASH_CA(IF x.enPas # NO_SQ THEN HASH_EP(x) ELSE x)
        Rights(x) == HASH_CA(
            [x EXCEPT !.history = Put(@, hp, [History(x, hp) EXCEPT
                                                !.move = move,
                                                !.fiftyMove = x.fiftyMove,
                                                !.enPas = x.enPas,
                                                !.castlePerm = x.castlePerm]),
                      !.castlePerm = BitAnd(BitAnd(@, CastlePerm[from]), CastlePerm[to]),
                      !.enPas = NO_SQ,
                      !.fiftyMove = @ + 1])
        Capture(x) ==
            IF captured # EMPTY
            THEN TrackCaptured([ClearPiece(to, x) EXCEPT !.fiftyMove = 0], captured)
            ELSE x
        Counters(x) == [x EXCEPT !.hisPly = @ + 1, !.ply = @ + 1]
        Pawn(x) ==
            IF Tab(g_piecePawn, x.pieces[from]) = 1
            THEN IF HasFlag(move, MFLAGPS)
                 THEN HASH_EP([x EXCEPT !.fiftyMove = 0, !.enPas =
                                IF side = COLOR_TYPE_WHITE THEN from + 10 ELSE from - 10])
                 ELSE [x EXCEPT !.fiftyMove = 0]
            ELSE x
        Promotion(x) ==
            IF promotedPiece # EMPTY THEN AddPiece(to, ClearPiece(to, x), promotedPiece) ELSE x
        King(x) == IF Tab(g_pieceKing, x.pieces[to]) = 1
                   THEN [x EXCEPT !.KingSq[x.side] = to] ELSE x
        FlipSide(x) == HASH_SIDE([x EXCEPT !.side = Flip(@)])
    IN FlipSide(King(Promotion(MovePiece(from, to,
            Pawn(Counters(Capture(Rights(HashOut(Special(SaveKey(b)))))))))))

\* a Move_Make that keeps the en-passant square of the position before the move
Move_MakeEnPasKept(b, move) ==
    LET Kept(x) == [ret |-> BOOL_TYPE_TRUE,
                    board |-> [x EXCEPT !.enPas = IF HasFlag(move, MFLAGPS) THEN @ ELSE b.enPas]]
    IN Once(MakeApply(b, move), Kept)

\* a Move_Make without the legality test
Move_MakeUntested(b, move) == [ret |-> BOOL_TYPE_TRUE, board |-> MakeApply(b, move)]

\* a Move_Make that reports an illegal move without reverting it
Move_MakeUnreverted(b, move) ==
    LET Tested(side, applied) ==
            [ret |-> IF Attack_IsSquareAttacked(applied.KingSq[side], applied.side, applied)
                     THEN BOOL_TYPE_FALSE ELSE BOOL_TYPE_TRUE,
             board |-> applied]
    IN Tested(b.side, MakeApply(b, move))

\* Move_Make: ret is the return value, board the board it leaves
Move_Make(b, move) ==
    LET Tested(side, applied) ==
            IF Attack_IsSquareAttacked(applied.KingSq[side], applied.side, applied)
            THEN [ret |-> BOOL_TYPE_FALSE, board |-> Move_Take(applied)]
            ELSE [ret |-> BOOL_TYPE_TRUE, board |-> applied]
    IN Tested(b.side, MakeApply(b, move))

\* a MakeNullMove that counts the pass as a move of the fifty-move rule
MakeNullMoveCounted(b) ==
    LET hp == b.hisPly
        SaveKey(x) == [x EXCEPT !.ply = @ + 1,
                                !.history = Put(@, hp, [History(x, hp) EXCEPT
                                                            !.posKey = x.posKey])]
        HashOut(x) == IF x.enPas # NO_SQ THEN HASH_EP(x) ELSE x
        Pass(x) == [x EXCEPT !.history = Put(@, hp, [History(x, hp) EXCEPT
                                                        !.move = NOMOVE,
                                                        !.fiftyMove = x.fiftyMove,
                                                        !.enPas = x.enPas,
                                                        !.castlePerm = x.castlePerm]),
                             !.enPas = NO_SQ,
                             !.fiftyMove = @ + 1,
                             !.side = Flip(@),
                             !.hisPly = @ + 1]
    IN HASH_SIDE(Pass(HashOut(SaveKey(b))))

MakeNullMove(b) ==
    LET hp == b.hisPly
        SaveKey(x) == [x EXCEPT !.ply = @ + 1,
                                !.history = Put(@, hp, [History(x, hp) EXCEPT
                                                            !.posKey = x.posKey])]
        HashOut(x) == IF x.enPas # NO_SQ THEN HASH_EP(x) ELSE x
        Pass(x) == [x EXCEPT !.history = Put(@, hp, [History(x, hp) EXCEPT
                                                        !.move = NOMOVE,
                                                        !.fiftyMove = x.fiftyMove,
                                                        !.enPas = x.enPas,
                                                        !.castlePerm = x.castlePerm]),
                             !.enPas = NO_SQ,
                             !.side = Flip(@),
                             !.hisPly = @ + 1]
    IN HASH_SIDE(Pass(HashOut(SaveKey(b))))

TakeNullMove(b) ==
    LET hp == b.hisPly - 1
        u == History(b, hp)
        Counters(x) == [x EXCEPT !.hisPly = hp, !.ply = @ - 1]
        HashOut(x) == IF x.enPas # NO_SQ THEN HASH_EP(x) ELSE x
        Restore(x) == [x EXCEPT !.castlePerm = u.castlePerm, !.fiftyMove = u.fiftyMove,
                                !.enPas = u.enPas]
    IN HASH_SIDE([HashOut(Restore(HashOut(Counters(b)))) EXCEPT !.side = Flip(@)])

-----------------------------------------------------------------------------
(* Move generator: moves_generation.c.  A move list is the sequence of its     *)
(* [move, score] entries in the order the code appends them.                   *)

LoopSlidePce == <<PIECE_TYPE_WHITE_BISHOP, PIECE_TYPE_WHITE_ROOK, PIECE_TYPE_WHITE_QUEEN, 0,
                  PIECE_TYPE_BLACK_BISHOP, PIECE_TYPE_BLACK_ROOK, PIECE_TYPE_BLACK_QUEEN, 0>>
LoopNonSlidePce == <<PIECE_TYPE_WHITE_KNIGHT, PIECE_TYPE_WHITE_KING, 0,
                     PIECE_TYPE_BLACK_KNIGHT, PIECE_TYPE_BLACK_KING, 0>>
LoopSlideIndex == <<0, 4>>
LoopNonSlideIndex == <<0, 3>>

\* PceDir[piece][0 .. NumDir[piece] - 1]
PceDir == << <<>>, <<>>, KnDir, BiDir, RkDir, KiDir, KiDir,
             <<>>, KnDir, BiDir, RkDir, KiDir, KiDir >>

VictimScore == <<0, 100, 200, 300, 400, 500, 600, 100, 200, 300, 400, 500, 600>>

\* Init_MvvLva
MvvLvaScores(Victim, Attacker) ==
    IF PieceValid(Victim) /\ PieceValid(Attacker)
    THEN Tab(VictimScore, Victim) + 6 - (Tab(VictimScore, Attacker) \div 100)
    ELSE 0

SearchKiller(b, k, ply) == Get(b.searchKillers, <<k, ply>>, NOMOVE)
SearchHistory(b, piece, sq) == Get(b.searchHistory, <<piece, sq>>, 0)

RECURSIVE Flatten(_)
Flatten(ss) == IF ss = <<>> THEN <<>> ELSE Head(ss) \o Flatten(Tail(ss))

\* the pieces of a Loop...Pce table from index i up to the terminating 0
RECURSIVE LoopPieces(_, _)
LoopPieces(table, i) ==
    IF Tab(table, i) = 0 THEN <<>> ELSE <<Tab(table, i)>> \o LoopPieces(table, i + 1)

AddQuietMove(b, move) ==
    << [move |-> move,
        score |-> IF SearchKiller(b, 0, b.ply) = move THEN 900000
                  ELSE IF SearchKiller(b, 1, b.ply) = move THEN 800000
                  ELSE SearchHistory(b, b.pieces[MOVE_GET_FROM_SQUARE(move)],
                                     MOVE_GET_TO_SQUARE(move))] >>

AddCaptureMove(b, move) ==
    << [move |-> move,
        score |-> MvvLvaScores(MOVE_GET_CAPTURED(move),
                               b.pieces[MOVE_GET_FROM_SQUARE(move)]) + 1000000] >>

AddEnPassantMove(b, move) == << [move |-> move, score |-> 105 + 1000000] >>

\* the four promotion pieces of a side, in the order the code emits them
PromotionPieces(side) ==
    IF side = COLOR_TYPE_WHITE
    THEN <<PIECE_TYPE_WHITE_QUEEN, PIECE_TYPE_WHITE_ROOK,
           PIECE_TYPE_WHITE_BISHOP, PIECE_TYPE_WHITE_KNIGHT>>
    ELSE <<PIECE_TYPE_BLACK_QUEEN, PIECE_TYPE_BLACK_ROOK,
           PIECE_TYPE_BLACK_BISHOP, PIECE_TYPE_BLACK_KNIGHT>>

\* the rank a pawn of side promotes from, and the rank it starts on
PromotionFromRank(side) == IF side = COLOR_TYPE_WHITE THEN RANK_TYPE_7 ELSE RANK_TYPE_2
PawnStartRank(side) == IF side = COLOR_TYPE_WHITE THEN RANK_TYPE_2 ELSE RANK_TYPE_7

\* AddWhitePawnCapMove / AddBlackPawnCapMove
AddPawnCapMove(b, side, from, to, capturedPiece) ==
    IF g_ranksBoard[from] = PromotionFromRank(side)
    THEN Flatten([k \in 1..4 |->
            AddCaptureMove(b, MOVE(from, to, capturedPiece, PromotionPieces(side)[k], 0))])
    ELSE AddCaptureMove(b, MOVE(from, to, capturedPiece, EMPTY, 0))

\* AddWhitePawnMove / AddBlackPawnMove
AddPawnMove(b, side, from, to) ==
    IF g_ranksBoard[from] = PromotionFromRank(side)
    THEN Flatten([k \in 1..4 |->
            AddQuietMove(b, MOVE(from, to, EMPTY, PromotionPieces(side)[k], 0))])
    ELSE AddQuietMove(b, MOVE(from, to, EMPTY, EMPTY, 0))

\* the body of the pawn loop for the pawn on squareIndex; fwd is +10 for White
\* and -10 for Black, c1 and c2 the two capture offsets in the order of the code
PawnMovesAt(b, side, squareIndex, capsOnly) ==
    LET fwd == IF side = COLOR_TYPE_WHITE THEN 10 ELSE -10
        c1 == IF side = COLOR_TYPE_WHITE THEN 9 ELSE -9
        c2 == IF side = COLOR_TYPE_WHITE THEN 11 ELSE -11
        enemy == Flip(side)
        push == IF ~capsOnly /\ b.pieces[squareIndex + fwd] = EMPTY
                THEN AddPawnMove(b, side, squareIndex, squareIndex + fwd) \o
                     (IF g_ranksBoard[squareIndex] = PawnStartRank(side)
                         /\ b.pieces[squareIndex + 2 * fwd] = EMPTY
                      THEN AddQuietMove(b, MOVE(squareIndex, squareIndex + 2 * fwd,
                                                EMPTY, EMPTY, MFLAGPS))
                      ELSE <<>>)
                ELSE <<>>
        cap(c) == IF ~SQOFFBOARD(squareIndex + c)
                     /\ Tab(g_pieceCol, b.pieces[squareIndex + c]) = enemy
                  THEN AddPawnCapMove(b, side, squareIndex, squareIndex + c,
                                      b.pieces[squareIndex + c])
                  ELSE <<>>
        ep(c) == IF b.enPas # NO_SQ /\ squareIndex + c = b.enPas
                 THEN AddEnPassantMove(b, MOVE(squareIndex, squareIndex + c,
                                               EMPTY, EMPTY, MFLAGEP))
                 ELSE <<>>
    IN push \o cap(c1) \o cap(c2) \o ep(c1) \o ep(c2)

\* a castling test that leaves out the two attack tests
CastleMoveUnattacked(b, perm, empties, kingSq, transitSq, toSq, bySide) ==
    IF BitAnd(b.castlePerm, perm) # 0 /\ (\A sq \in empties : b.pieces[sq] = EMPTY)
    THEN AddQuietMove(b, MOVE(kingSq, toSq, EMPTY, EMPTY, MFLAGCA))
    ELSE <<>>

\* one castling test: the rights bit, the empty squares, the two unattacked squares
CastleMove(b, perm, empties, kingSq, transitSq, toSq, bySide) ==
    IF BitAnd(b.castlePerm, perm) # 0
       /\ (\A sq \in empties : b.pieces[sq] = EMPTY)
       /\ ~Attack_IsSquareAttacked(kingSq, bySide, b)
       /\ ~Attack_IsSquareAttacked(transitSq, bySide, b)
    THEN AddQuietMove(b, MOVE(kingSq, toSq, EMPTY, EMPTY, MFLAGCA))
    ELSE <<>>

CastleMoves(b, side) ==
    IF side = COLOR_TYPE_WHITE
    THEN CastleMove(b, CASTLE_TYPE_WKCA, {F1, G1}, E1, F1, G1, COLOR_TYPE_BLACK) \o
         CastleMove(b, CASTLE_TYPE_WQCA, {D1, C1, B1}, E1, D1, C1, COLOR_TYPE_BLACK)
    ELSE CastleMove(b, CASTLE_TYPE_BKCA, {F8, G8}, E8, F8, G8, COLOR_TYPE_WHITE) \o
         CastleMove(b, CASTLE_TYPE_BQCA, {D8, C8, B8}, E8, D8, C8, COLOR_TYPE_WHITE)

\* the while loop along one ray of a sliding piece
RECURSIVE SlideMoves(_, _, _, _, _, _)
SlideMoves(b, side, squareIndex, direction, t_sq, capsOnly) ==
    IF SQOFFBOARD(t_sq) THEN <<>>
    ELSE IF b.pieces[t_sq] # EMPTY
         THEN IF Tab(g_pieceCol, b.pieces[t_sq]) = Flip(side)
              THEN AddCaptureMove(b, MOVE(squareIndex, t_sq, b.pieces[t_sq], EMPTY, 0))
              ELSE <<>>
    ELSE (IF capsOnly THEN <<>> ELSE AddQuietMove(b, MOVE(squareIndex, t_sq, EMPTY, EMPTY, 0)))
         \o SlideMoves(b, side, squareIndex, direction, t_sq + direction, capsOnly)

\* one step of a knight or king
StepMoves(b, side, squareIndex, t_sq, capsOnly) ==
    IF SQOFFBOARD(t_sq) THEN <<>>
    ELSE IF b.pieces[t_sq] # EMPTY
         THEN IF Tab(g_pieceCol, b.pieces[t_sq]) = Flip(side)
              THEN AddCaptureMove(b, MOVE(squareIndex, t_sq, b.pieces[t_sq], EMPTY, 0))
              ELSE <<>>
    ELSE IF capsOnly THEN <<>> ELSE AddQuietMove(b, MOVE(squareIndex, t_sq, EMPTY, EMPTY, 0))

\* the moves of every piece of one type, by piece-list index, then by direction
PieceMoves(b, side, piece, slides, capsOnly) ==
    Flatten([n \in 1..b.pieceCount[piece] |->
        LET squareIndex == b.pList[piece][n - 1]
            dirs == Tab(PceDir, piece)
        IN Flatten([index \in 1..Len(dirs) |->
                IF slides
                THEN SlideMoves(b, side, squareIndex, dirs[index],
                                squareIndex + dirs[index], capsOnly)
                ELSE StepMoves(b, side, squareIndex, squareIndex + dirs[index], capsOnly)])])

\* the common body of Move_GenerateAll and GenerateAllCaps
GenerateMoves(b, capsOnly) ==
    LET side == b.side
        pawn == IF side = COLOR_TYPE_WHITE THEN PIECE_TYPE_WHITE_PAWN
                                           ELSE PIECE_TYPE_BLACK_PAWN
        pawns == Flatten([n \in 1..b.pieceCount[pawn] |->
                            PawnMovesAt(b, side, b.pList[pawn][n - 1], capsOnly)])
        castles == IF capsOnly THEN <<>> ELSE CastleMoves(b, side)
        sliders == LoopPieces(LoopSlidePce, Tab(LoopSlideIndex, side))
        steppers == LoopPieces(LoopNonSlidePce, Tab(LoopNonSlideIndex, side))
    IN pawns \o castles
       \o Flatten([k \in 1..Len(sliders) |-> PieceMoves(b, side, sliders[k], TRUE, capsOnly)])
       \o Flatten([k \in 1..Len(steppers) |-> PieceMoves(b, side, steppers[k], FALSE, capsOnly)])

Move_GenerateAll(b) == GenerateMoves(b, FALSE)

GenerateAllCaps(b) == GenerateMoves(b, TRUE)

-----------------------------------------------------------------------------
(* Move text: moves_io.c *)

Move_Parse(ptrChar, b) ==
    LET c5 == CharAt(ptrChar, 5)
        \* TRUE iff the loop over the list returns Move
        Matches(Move, from, to) ==
            LET promotedPiece == MOVE_GET_PROMOTED(Move)
                rq == Tab(g_pieceRookQueen, promotedPiece) = 1
                bq == Tab(g_pieceBishopQueen, promotedPiece) = 1
            IN /\ MOVE_GET_FROM_SQUARE(Move) = from
               /\ MOVE_GET_TO_SQUARE(Move) = to
               /\ \/ promotedPiece = EMPTY
                  \/ rq /\ ~bq /\ c5 = "r"
                  \/ ~rq /\ bq /\ c5 = "b"
                  \/ rq /\ bq /\ c5 = "q"
                  \/ Tab(g_pieceKnight, promotedPiece) = 1 /\ c5 = "n"
        Search(list, from, to) ==
            IF \E MoveNum \in 1..Len(list) : Matches(list[MoveNum].move, from, to)
            THEN list[CHOOSE MoveNum \in 1..Len(list) :
                        /\ Matches(list[MoveNum].move, from, to)
                        /\ \A j \in 1..(MoveNum - 1) : ~Matches(list[j].move, from, to)].move
            ELSE NOMOVE
    IN IF ~IsIn(CharAt(ptrChar, 2), RankChars) THEN NOMOVE
       ELSE IF ~IsIn(CharAt(ptrChar, 4), RankChars) THEN NOMOVE
       ELSE IF ~IsIn(CharAt(ptrChar, 1), FileChars) THEN NOMOVE
       ELSE IF ~IsIn(CharAt(ptrChar, 3), FileChars) THEN NOMOVE
       ELSE Search(Move_GenerateAll(b),
                   FILE_RANK_TO_SQUARE(CharMinus(CharAt(ptrChar, 1), FileChars),
                                       CharMinus(CharAt(ptrChar, 2), RankChars)),
                   FILE_RANK_TO_SQUARE(CharMinus(CharAt(ptrChar, 3), FileChars),
                                       CharMinus(CharAt(ptrChar, 4), RankChars)))

\* the text of a move: the files and ranks of its two squares, and the letter of
\* the promoted piece where there is one
PrMove(move) ==
    LET ff == g_filesBoard[MOVE_GET_FROM_SQUARE(move)]
        rf == g_ranksBoard[MOVE_GET_FROM_SQUARE(move)]
        ft == g_filesBoard[MOVE_GET_TO_SQUARE(move)]
        rt == g_ranksBoard[MOVE_GET_TO_SQUARE(move)]
        promoted == MOVE_GET_PROMOTED(move)
        rq == Tab(g_pieceRookQueen, promoted) = 1
        bq == Tab(g_pieceBishopQueen, promoted) = 1
        pchar == IF Tab(g_pieceKnight, promoted) = 1 THEN "n"
                 ELSE IF rq /\ ~bq THEN "r"
                 ELSE IF ~rq /\ bq THEN "b"
                 ELSE "q"
        squares == <<FileChars[ff + 1], RankChars[rf + 1], FileChars[ft + 1], RankChars[rt + 1]>>
    IN IF promoted # EMPTY THEN squares \o <<pchar>> ELSE squares

-----------------------------------------------------------------------------
(* Node counting: search_perft.c *)

\* a count that takes every generated move for a legal one
PerftMovesUntested(depth, b, leafNodes, list, first, final) ==
    [leafNodes |-> leafNodes + (final - first), board |-> b]

\* Perft: the rounds MoveNum = first..final-1 of the loop over list, one after the
\* other; leafNodes is the global counter and board the board the rounds leave
RECURSIVE PerftMoves(_, _, _, _, _, _)
PerftMoves(depth, b, leafNodes, list, first, final) ==
    LET half == (first + final) \div 2
        Rest(done) == PerftMoves(depth, done.board, done.leafNodes, list, half, final)
        Tried(made) ==
            LET Counted(sub) == [leafNodes |-> sub.leafNodes, board |-> Move_Take(sub.board)]
                Below(x) ==
                    IF depth - 1 = 0 THEN [leafNodes |-> leafNodes + 1, board |-> x]
                    ELSE Once(Move_GenerateAll(x),
                              LAMBDA sublist : PerftMoves(depth - 1, x, leafNodes, sublist,
                                                          0, Len(sublist)))
            IN IF made.ret = BOOL_TYPE_FALSE
               THEN [leafNodes |-> leafNodes, board |-> made.board]
               ELSE Once(Below(made.board), Counted)
    IN IF first >= final THEN [leafNodes |-> leafNodes, board |-> b]
       ELSE IF first + 1 = final THEN Once(Move_Make(b, list[first + 1].move), Tried)
       ELSE Once(PerftMoves(depth, b, leafNodes, list, first, half), Rest)

Perft(depth, b, leafNodes) ==
    LET Generated(list) == PerftMoves(depth, b, leafNodes, list, 0, Len(list))
    IN IF depth = 0 THEN [leafNodes |-> leafNodes + 1, board |-> b]
       ELSE Once(Move_GenerateAll(b), Generated)

-----------------------------------------------------------------------------
(* Game result: protocols_xboard.c *)

\* a repetition count that leaves out the position the game started from
ThreeFoldRepFrom(b, i) ==
    Cardinality({j \in i..(b.hisPly - 1) : History(b, j).posKey = b.posKey})

ThreeFoldRepAfterFirst(b) == ThreeFoldRepFrom(b, 1)

ThreeFoldRep(b) == ThreeFoldRepFrom(b, 0)

\* a material test that does not look at the pawns
DrawMaterialPawnless(b) ==
    LET n(p) == b.pieceCount[p]
    IN IF n(PIECE_TYPE_WHITE_QUEEN) # 0 \/ n(PIECE_TYPE_BLACK_QUEEN) # 0
          \/ n(PIECE_TYPE_WHITE_ROOK) # 0 \/ n(PIECE_TYPE_BLACK_ROOK) # 0
       THEN BOOL_TYPE_FALSE
       ELSE IF n(PIECE_TYPE_WHITE_BISHOP) > 1 \/ n(PIECE_TYPE_BLACK_BISHOP) > 1
       THEN BOOL_TYPE_FALSE
       ELSE IF n(PIECE_TYPE_WHITE_KNIGHT) > 1 \/ n(PIECE_TYPE_BLACK_KNIGHT) > 1
       THEN BOOL_TYPE_FALSE
       ELSE IF n(PIECE_TYPE_WHITE_KNIGHT) # 0 /\ n(PIECE_TYPE_WHITE_BISHOP) # 0
       THEN BOOL_TYPE_FALSE
       ELSE IF n(PIECE_TYPE_BLACK_KNIGHT) # 0 /\ n(PIECE_TYPE_BLACK_BISHOP) # 0
       THEN BOOL_TYPE_FALSE
       ELSE BOOL_TYPE_TRUE

DrawMaterial(b) ==
    LET n(p) == b.pieceCount[p]
    IN IF n(PIECE_TYPE_WHITE_PAWN) # 0 \/ n(PIECE_TYPE_BLACK_PAWN) # 0 THEN BOOL_TYPE_FALSE
       ELSE IF n(PIECE_TYPE_WHITE_QUEEN) # 0 \/ n(PIECE_TYPE_BLACK_QUEEN) # 0
               \/ n(PIECE_TYPE_WHITE_ROOK) # 0 \/ n(PIECE_TYPE_BLACK_ROOK) # 0
       THEN BOOL_TYPE_FALSE
       ELSE IF n(PIECE_TYPE_WHITE_BISHOP) > 1 \/ n(PIECE_TYPE_BLACK_BISHOP) > 1
       THEN BOOL_TYPE_FALSE
       ELSE IF n(PIECE_TYPE_WHITE_KNIGHT) > 1 \/ n(PIECE_TYPE_BLACK_KNIGHT) > 1
       THEN BOOL_TYPE_FALSE
       ELSE IF n(PIECE_TYPE_WHITE_KNIGHT) # 0 /\ n(PIECE_TYPE_WHITE_BISHOP) # 0
       THEN BOOL_TYPE_FALSE
       ELSE IF n(PIECE_TYPE_BLACK_KNIGHT) # 0 /\ n(PIECE_TYPE_BLACK_BISHOP) # 0
       THEN BOOL_TYPE_FALSE
       ELSE BOOL_TYPE_TRUE

\* a loop that takes every generated move for a legal one
FoundFromAny(MoveNum, list, b) == [found |-> IF Len(list) > 0 THEN 1 ELSE 0, board |-> b]

\* the loop of checkresult: found is 1 once Move_Make has accepted a move, which is
\* then taken back; board is the board the loop leaves
RECURSIVE FoundFrom(_, _, _)
FoundFrom(MoveNum, list, b) ==
    LET Tried(made) ==
            IF made.ret = BOOL_TYPE_FALSE
            THEN FoundFrom(MoveNum + 1, list, made.board)
            ELSE [found |-> 1, board |-> Move_Take(made.board)]
    IN IF MoveNum >= Len(list) THEN [found |-> 0, board |-> b]
       ELSE Once(Move_Make(b, list[MoveNum + 1].move), Tried)

\* checkresult: ret is the return value, text the result it prints (with the
\* "(claimed by Gambit)" left out), board the board it leaves
checkresult(b) ==
    LET Over(text, x) == [ret |-> BOOL_TYPE_TRUE, text |-> text, board |-> x]
        Tried(tried) ==
            IF tried.found # 0
            THEN [ret |-> BOOL_TYPE_FALSE, text |-> "", board |-> tried.board]
            ELSE IF Attack_IsSquareAttacked(tried.board.KingSq[tried.board.side],
                                            1 - tried.board.side, tried.board)
            THEN IF tried.board.side = COLOR_TYPE_WHITE
                 THEN Over("0-1 {black mates}", tried.board)
                 ELSE Over("1-0 {white mates}", tried.board)
            ELSE Over("1/2-1/2 {stalemate}", tried.board)
    IN IF b.fiftyMove > 100 THEN Over("1/2-1/2 {fifty move rule}", b)
       ELSE IF ThreeFoldRep(b) >= 2 THEN Over("1/2-1/2 {3-fold repetition}", b)
       ELSE IF DrawMaterial(b) = BOOL_TYPE_TRUE THEN Over("1/2-1/2 {insufficient material}", b)
       ELSE Once(FoundFrom(0, Move_GenerateAll(b), b), Tried)

-----------------------------------------------------------------------------
(* Transposition table: hashtable_pv.c.  The counters newWrite, overWrite, hit  *)
(* and cut are written and never read; they are left out of the table.          *)

\* the number standing for the RAND_64 value that Init_HashKeys draws for the key with
\* identifier k: the numbers of different keys are scattered as the values drawn are,
\* so that positions a move apart do not meet at one index
KeyWeight(k) == ((((k * k) % 65521) * 32749) + k) % 33554393

\* board->posKey as a number: the keys of a position combined
RECURSIVE KeyValue(_)
KeyValue(key) ==
    IF key = {} THEN 0
    ELSE LET k == MinOf(key) IN KeyWeight(k) + KeyValue(key \ {k})

\* board->posKey % board->HashTable->numEntries
HashIndex(b) == KeyValue(b.posKey) % b.HashTable.numEntries

\* board->HashTable->pTable[index]
TableEntry(b, index) == Get(b.HashTable.pTable, index, HashEntry)

\* every entry zeroed
HashTable_Clear(table) == [table EXCEPT !.pTable = <<>>]

\* sizeof(HashEntry): an 8-byte key and four 4-byte ints
SizeofHashEntry == 24

\* a HashTable_Init that keeps every entry the memory holds
HashTable_InitEntriesWhole(MB) == (1048576 * MB) \div SizeofHashEntry

\* the number of entries HashTable_Init asks for: HashSize / sizeof(HashEntry), less 2
HashTable_InitEntries(MB) == ((1048576 * MB) \div SizeofHashEntry) - 2

\* malloc(numEntries * sizeof(HashEntry)) with avail bytes to give: a negative count
\* is, as a size_t, more than any memory holds
Malloc(numEntries, avail) == numEntries >= 0 /\ numEntries * SizeofHashEntry <= avail

\* HashTable_Init with an allocation that succeeds
HashTable_Init(table, MB) ==
    HashTable_Clear([table EXCEPT !.numEntries = HashTable_InitEntries(MB)])

\* a HashTable_ProbeEntry that does not compare depths
HashTable_ProbeEntryAnyDepth(b, move0, score0, alpha, beta, depth) ==
    LET Found(entry) ==
            LET score == IF entry.score > CHESS_IS_MATE THEN entry.score - b.ply
                         ELSE IF entry.score < -CHESS_IS_MATE THEN entry.score + b.ply
                         ELSE entry.score
            IN IF entry.flags = HFALPHA /\ score <= alpha
               THEN [ret |-> BOOL_TYPE_TRUE, move |-> entry.move, score |-> alpha]
               ELSE IF entry.flags = HFBETA /\ score >= beta
               THEN [ret |-> BOOL_TYPE_TRUE, move |-> entry.move, score |-> beta]
               ELSE IF entry.flags = HFEXACT
               THEN [ret |-> BOOL_TYPE_TRUE, move |-> entry.move, score |-> score]
               ELSE [ret |-> BOOL_TYPE_FALSE, move |-> entry.move, score |-> score]
        Probe(entry) ==
            IF entry.posKey = b.posKey THEN Found(entry)
            ELSE [ret |-> BOOL_TYPE_FALSE, move |-> move0, score |-> score0]
    IN Probe(TableEntry(b, HashIndex(b)))

\* a HashTable_ProbeEntry that hands out the score as the slot holds it
HashTable_ProbeEntryUnshifted(b, move0, score0, alpha, beta, depth) ==
    LET Found(entry) ==
            IF entry.depth >= depth
            THEN IF entry.flags = HFALPHA /\ entry.score <= alpha
                 THEN [ret |-> BOOL_TYPE_TRUE, move |-> entry.move, score |-> alpha]
                 ELSE IF entry.flags = HFBETA /\ entry.score >= beta
                 THEN [ret |-> BOOL_TYPE_TRUE, move |-> entry.move, score |-> beta]
                 ELSE IF entry.flags = HFEXACT
                 THEN [ret |-> BOOL_TYPE_TRUE, move |-> entry.move, score |-> entry.score]
                 ELSE [ret |-> BOOL_TYPE_FALSE, move |-> entry.move, score |-> entry.score]
            ELSE [ret |-> BOOL_TYPE_FALSE, move |-> entry.move, score |-> score0]
        Probe(entry) ==
            IF entry.posKey = b.posKey THEN Found(entry)
            ELSE [ret |-> BOOL_TYPE_FALSE, move |-> move0, score |-> score0]
    IN Probe(TableEntry(b, HashIndex(b)))

\* HashTable_ProbeEntry: ret is the return value, move and score what *move and
\* *score hold afterwards (move0 and score0 before the call)
HashTable_ProbeEntry(b, move0, score0, alpha, beta, depth) ==
    LET Found(entry) ==
            LET score == IF entry.score > CHESS_IS_MATE THEN entry.score - b.ply
                         ELSE IF entry.score < -CHESS_IS_MATE THEN entry.score + b.ply
                         ELSE entry.score
            IN IF entry.depth >= depth
               THEN IF entry.flags = HFALPHA /\ score <= alpha
                    THEN [ret |-> BOOL_TYPE_TRUE, move |-> entry.move, score |-> alpha]
                    ELSE IF entry.flags = HFBETA /\ score >= beta
                    THEN [ret |-> BOOL_TYPE_TRUE, move |-> entry.move, score |-> beta]
                    ELSE IF entry.flags = HFEXACT
                    THEN [ret |-> BOOL_TYPE_TRUE, move |-> entry.move, score |-> score]
                    ELSE [ret |-> BOOL_TYPE_FALSE, move |-> entry.move, score |-> score]
               ELSE [ret |-> BOOL_TYPE_FALSE, move |-> entry.move, score |-> score0]
        Probe(entry) ==
            IF entry.posKey = b.posKey THEN Found(entry)
            ELSE [ret |-> BOOL_TYPE_FALSE, move |-> move0, score |-> score0]
    IN Probe(TableEntry(b, HashIndex(b)))

\* a HashTable_StoreEntry that stores the score as given
HashTable_StoreEntryPlain(b, move, score, flags, depth) ==
    [b EXCEPT !.HashTable.pTable = Put(@, HashIndex(b),
        [posKey |-> b.posKey, move |-> move, score |-> score, depth |-> depth,
         flags |-> flags])]

\* a store that records every score as exact
HashTable_StoreEntryExact(b, move, score, flags, depth) ==
    LET adjusted == IF score > CHESS_IS_MATE THEN score + b.ply
                    ELSE IF score < -CHESS_IS_MATE THEN score - b.ply
                    ELSE score
    IN [b EXCEPT !.HashTable.pTable = Put(@, HashIndex(b),
            [posKey |-> b.posKey, move |-> move, score |-> adjusted, depth |-> depth,
             flags |-> HFEXACT])]

\* a HashTable_StoreEntry that keeps an entry of greater depth
HashTable_StoreEntryDeeper(b, move, score, flags, depth) ==
    IF TableEntry(b, HashIndex(b)).depth > depth THEN b
    ELSE HashTable_StoreEntryPlain(b, move, score, flags, depth)

HashTable_StoreEntry(b, move, score, flags, depth) ==
    LET adjusted == IF score > CHESS_IS_MATE THEN score + b.ply
                    ELSE IF score < -CHESS_IS_MATE THEN score - b.ply
                    ELSE score
    IN [b EXCEPT !.HashTable.pTable = Put(@, HashIndex(b),
            [posKey |-> b.posKey, move |-> move, score |-> adjusted, depth |-> depth,
             flags |-> flags])]

\* a probe that finds no move for any position
HashTable_ProbePvMoveMissed(b) == NOMOVE

HashTable_ProbePvMove(b) ==
    LET Probe(entry) == IF entry.posKey = b.posKey THEN entry.move ELSE NOMOVE
    IN Probe(TableEntry(b, HashIndex(b)))

-----------------------------------------------------------------------------
(* Static evaluation: evaluation_static.c, with the masks of utils_init.c and *)
(* Mirror64 of data.c                                                          *)

PawnIsolated == -10
PawnPassed == <<0, 5, 10, 20, 35, 60, 100, 200>>
RookOpenFile == 10
RookSemiOpenFile == 5
QueenOpenFile == 5
QueenSemiOpenFile == 3
BishopPair == 30

PawnTable ==
    << 0,  0,  0,   0,   0,  0,  0,  0,
      10, 10,  0, -10, -10,  0, 10, 10,
       5,  0,  0,   5,   5,  0,  0,  5,
       0,  0, 10,  20,  20, 10,  0,  0,
       5,  5,  5,  10,  10,  5,  5,  5,
      10, 10, 10,  20,  20, 10, 10, 10,
      20, 20, 20,  30,  30, 20, 20, 20,
       0,  0,  0,   0,   0,  0,  0,  0 >>

KnightTable ==
    << 0, -10,  0,  0,  0,  0, -10, 0,
       0,   0,  0,  5,  5,  0,   0, 0,
       0,   0, 10, 10, 10, 10,   0, 0,
       0,   0, 10, 20, 20, 10,   5, 0,
       5,  10, 15, 20, 20, 15,  10, 5,
       5,  10, 10, 20, 20, 10,  10, 5,
       0,   0,  5, 10, 10,  5,   0, 0,
       0,   0,  0,  0,  0,  0,   0, 0 >>

BishopTable ==
    << 0,  0, -10,  0,  0, -10,  0, 0,
       0,  0,   0, 10, 10,   0,  0, 0,
       0,  0,  10, 15, 15,  10,  0, 0,
       0, 10,  15, 20, 20,  15, 10, 0,
       0, 10,  15, 20, 20,  15, 10, 0,
       0,  0,  10, 15, 15,  10,  0, 0,
       0,  0,   0, 10, 10,   0,  0, 0,
       0,  0,   0,  0,  0,   0,  0, 0 >>

RookTable ==
    << 0,  0,  5, 10, 10,  5,  0,  0,
       0,  0,  5, 10, 10,  5,  0,  0,
       0,  0,  5, 10, 10,  5,  0,  0,
       0,  0,  5, 10, 10,  5,  0,  0,
       0,  0,  5, 10, 10,  5,  0,  0,
       0,  0,  5, 10, 10,  5,  0,  0,
      25, 25, 25, 25, 25, 25, 25, 25,
       0,  0,  5, 10, 10,  5,  0,  0 >>

KingE ==
    << -50, -10,  0,  0,  0,  0, -10, -50,
       -10,   0, 10, 10, 10, 10,   0, -10,
         0,  10, 20, 20, 20, 20,  10,   0,
         0,  10, 20, 40, 40, 20,  10,   0,
         0,  10, 20, 40, 40, 20,  10,   0,
         0,  10, 20, 20, 20, 20,  10,   0,
       -10,   0, 10, 10, 10, 10,   0, -10,
       -50, -10,  0,  0,  0,  0, -10, -50 >>

KingO ==
    <<   0,   5,   5, -10, -10,   0,  10,   5,
       -30, -30, -30, -30, -30, -30, -30, -30,
       -50, -50, -50, -50, -50, -50, -50, -50,
       -70, -70, -70, -70, -70, -70, -70, -70,
       -70, -70, -70, -70, -70, -70, -70, -70,
       -70, -70, -70, -70, -70, -70, -70, -70,
       -70, -70, -70, -70, -70, -70, -70, -70,
       -70, -70, -70, -70, -70, -70, -70, -70 >>

\* Mirror64[sq64]: the square of the same file on the mirrored rank
SQUARE_MIRROR_64(sq64) == (7 - (sq64 \div 8)) * 8 + (sq64 % 8)

\* the masks Init_EvalMasks fills, as sets of 64-based squares
g_fileBBMask(f) == {r * 8 + f : r \in 0..7}

g_isolatedMask(sq64) ==
    {t \in 0..63 : (t % 8) - (sq64 % 8) \in {-1, 1}}

g_whitePassedMask(sq64) ==
    {t \in 0..63 : (t % 8) - (sq64 % 8) \in {-1, 0, 1} /\ (t \div 8) > (sq64 \div 8)}

g_blackPassedMask(sq64) ==
    {t \in 0..63 : (t % 8) - (sq64 % 8) \in {-1, 0, 1} /\ (t \div 8) < (sq64 \div 8)}

Abs(x) == IF x < 0 THEN -x ELSE x

MaterialDraw(b) ==
    LET n(p) == b.pieceCount[p]
        wN == PIECE_TYPE_WHITE_KNIGHT
        wB == PIECE_TYPE_WHITE_BISHOP
        wR == PIECE_TYPE_WHITE_ROOK
        wQ == PIECE_TYPE_WHITE_QUEEN
        bN == PIECE_TYPE_BLACK_KNIGHT
        bB == PIECE_TYPE_BLACK_BISHOP
        bR == PIECE_TYPE_BLACK_ROOK
        bQ == PIECE_TYPE_BLACK_QUEEN
    IN IF n(wR) = 0 /\ n(bR) = 0 /\ n(wQ) = 0 /\ n(bQ) = 0
       THEN IF n(bB) = 0 /\ n(wB) = 0
            THEN B(n(wN) < 3 /\ n(bN) < 3)
            ELSE IF n(wN) = 0 /\ n(bN) = 0
            THEN B(Abs(n(wB) - n(bB)) < 2)
            ELSE IF (n(wN) < 3 /\ n(wB) = 0) \/ (n(wB) = 1 /\ n(wN) = 0)
            THEN B((n(bN) < 3 /\ n(bB) = 0) \/ (n(bB) = 1 /\ n(bN) = 0))
            ELSE BOOL_TYPE_FALSE
       ELSE IF n(wQ) = 0 /\ n(bQ) = 0
       THEN IF n(wR) = 1 /\ n(bR) = 1
            THEN B(n(wN) + n(wB) < 2 /\ n(bN) + n(bB) < 2)
            ELSE IF n(wR) = 1 /\ n(bR) = 0
            THEN B(n(wN) + n(wB) = 0 /\ (n(bN) + n(bB) = 1 \/ n(bN) + n(bB) = 2))
            ELSE IF n(bR) = 1 /\ n(wR) = 0
            THEN B(n(bN) + n(bB) = 0 /\ (n(wN) + n(wB) = 1 \/ n(wN) + n(wB) = 2))
            ELSE BOOL_TYPE_FALSE
       ELSE BOOL_TYPE_FALSE

ENDGAME_MAT ==
    1 * Tab(g_pieceVal, PIECE_TYPE_WHITE_ROOK) + 2 * Tab(g_pieceVal, PIECE_TYPE_WHITE_KNIGHT)
    + 2 * Tab(g_pieceVal, PIECE_TYPE_WHITE_PAWN) + Tab(g_pieceVal, PIECE_TYPE_WHITE_KING)

\* one of the loops of Evaluate_Position over the list of a piece: the sum of
\* Term(square) over the live entries from pieceCount on
RECURSIVE EvalLoop(_, _, _, _)
EvalLoop(Term(_), b, piece, pieceCount) ==
    IF pieceCount >= b.pieceCount[piece] THEN 0
    ELSE Term(b.pList[piece][pieceCount]) + EvalLoop(Term, b, piece, pieceCount + 1)

Evaluate_Position(b) ==
    LET Sq64(squareIndex) == SQUARE_120_TO_64(squareIndex)
        Mirror(squareIndex) == SQUARE_MIRROR_64(SQUARE_120_TO_64(squareIndex))
        OnFile(squareIndex, color) ==
            b.pawns[color] \cap g_fileBBMask(g_filesBoard[squareIndex])
        FileBonus(squareIndex, color, open, semi) ==
            IF OnFile(squareIndex, COLOR_TYPE_BOTH) = {} THEN open
            ELSE IF OnFile(squareIndex, color) = {} THEN semi
            ELSE 0
        WhitePawn(squareIndex) ==
            Tab(PawnTable, Sq64(squareIndex))
            + (IF g_isolatedMask(Sq64(squareIndex)) \cap b.pawns[COLOR_TYPE_WHITE] = {}
               THEN PawnIsolated ELSE 0)
            + (IF g_whitePassedMask(Sq64(squareIndex)) \cap b.pawns[COLOR_TYPE_BLACK] = {}
               THEN Tab(PawnPassed, g_ranksBoard[squareIndex]) ELSE 0)
        BlackPawn(squareIndex) ==
            Tab(PawnTable, Mirror(squareIndex))
            + (IF g_isolatedMask(Sq64(squareIndex)) \cap b.pawns[COLOR_TYPE_BLACK] = {}
               THEN PawnIsolated ELSE 0)
            + (IF g_blackPassedMask(Sq64(squareIndex)) \cap b.pawns[COLOR_TYPE_WHITE] = {}
               THEN Tab(PawnPassed, 7 - g_ranksBoard[squareIndex]) ELSE 0)
        WhiteKnight(squareIndex) == Tab(KnightTable, Sq64(squareIndex))
        BlackKnight(squareIndex) == Tab(KnightTable, Mirror(squareIndex))
        WhiteBishop(squareIndex) == Tab(BishopTable, Sq64(squareIndex))
        BlackBishop(squareIndex) == Tab(BishopTable, Mirror(squareIndex))
        WhiteRook(squareIndex) ==
            Tab(RookTable, Sq64(squareIndex))
            + FileBonus(squareIndex, COLOR_TYPE_WHITE, RookOpenFile, RookSemiOpenFile)
        BlackRook(squareIndex) ==
            Tab(RookTable, Mirror(squareIndex))
            + FileBonus(squareIndex, COLOR_TYPE_BLACK, RookOpenFile, RookSemiOpenFile)
        WhiteQueen(squareIndex) ==
            FileBonus(squareIndex, COLOR_TYPE_WHITE, QueenOpenFile, QueenSemiOpenFile)
        BlackQueen(squareIndex) ==
            FileBonus(squareIndex, COLOR_TYPE_BLACK, QueenOpenFile, QueenSemiOpenFile)
        WhiteKing(squareIndex) ==
            IF b.material[COLOR_TYPE_BLACK] <= ENDGAME_MAT
            THEN Tab(KingE, Sq64(squareIndex)) ELSE Tab(KingO, Sq64(squareIndex))
        BlackKing(squareIndex) ==
            IF b.material[COLOR_TYPE_WHITE] <= ENDGAME_MAT
            THEN Tab(KingE, Mirror(squareIndex)) ELSE Tab(KingO, Mirror(squareIndex))
        score ==
            b.material[COLOR_TYPE_WHITE] - b.material[COLOR_TYPE_BLACK]
            + EvalLoop(WhitePawn, b, PIECE_TYPE_WHITE_PAWN, 0)
            - EvalLoop(BlackPawn, b, PIECE_TYPE_BLACK_PAWN, 0)
            + EvalLoop(WhiteKnight, b, PIECE_TYPE_WHITE_KNIGHT, 0)
            - EvalLoop(BlackKnight, b, PIECE_TYPE_BLACK_KNIGHT, 0)
            + EvalLoop(WhiteBishop, b, PIECE_TYPE_WHITE_BISHOP, 0)
            - EvalLoop(BlackBishop, b, PIECE_TYPE_BLACK_BISHOP, 0)
            + EvalLoop(WhiteRook, b, PIECE_TYPE_WHITE_ROOK, 0)
            - EvalLoop(BlackRook, b, PIECE_TYPE_BLACK_ROOK, 0)
            + EvalLoop(WhiteQueen, b, PIECE_TYPE_WHITE_QUEEN, 0)
            - EvalLoop(BlackQueen, b, PIECE_TYPE_BLACK_QUEEN, 0)
            + WhiteKing(b.pList[PIECE_TYPE_WHITE_KING][0])
            - BlackKing(b.pList[PIECE_TYPE_BLACK_KING][0])
            + (IF b.pieceCount[PIECE_TYPE_WHITE_BISHOP] >= 2 THEN BishopPair ELSE 0)
            - (IF b.pieceCount[PIECE_TYPE_BLACK_BISHOP] >= 2 THEN BishopPair ELSE 0)
    IN IF b.pieceCount[PIECE_TYPE_WHITE_PAWN] = 0 /\ b.pieceCount[PIECE_TYPE_BLACK_PAWN] = 0
          /\ MaterialDraw(b) = BOOL_TYPE_TRUE
       THEN 0
       ELSE IF b.side = COLOR_TYPE_WHITE THEN score ELSE -score

\* the sum of the castling rights in rights that castlePerm holds
SwapCastle(castlePerm, right, swapped) ==
    IF BitAnd(castlePerm, right) # 0 THEN swapped ELSE 0

\* a mirror that leaves the side to move as it is
Board_MirrorSameSide(b) ==
    LET SwapPiece == <<EMPTY, PIECE_TYPE_BLACK_PAWN, PIECE_TYPE_BLACK_KNIGHT,
                       PIECE_TYPE_BLACK_BISHOP, PIECE_TYPE_BLACK_ROOK, PIECE_TYPE_BLACK_QUEEN,
                       PIECE_TYPE_BLACK_KING, PIECE_TYPE_WHITE_PAWN, PIECE_TYPE_WHITE_KNIGHT,
                       PIECE_TYPE_WHITE_BISHOP, PIECE_TYPE_WHITE_ROOK, PIECE_TYPE_WHITE_QUEEN,
                       PIECE_TYPE_WHITE_KING>>
        tempPiecesArray == [squareIndex \in 0..63 |->
                               b.pieces[SQUARE_64_TO_120(SQUARE_MIRROR_64(squareIndex))]]
        Keyed(x) == [x EXCEPT !.posKey = Board_GeneratePositionKey(x)]
    IN Board_UpdateListsMaterial(Keyed(
          [Board_Reset(b) EXCEPT
              !.pieces = [i \in 0..(CHESS_BOARD_SQUARE_NUM - 1) |->
                            IF SqOnBoard(i)
                            THEN Tab(SwapPiece, tempPiecesArray[SQUARE_120_TO_64(i)])
                            ELSE OFFBOARD]]))

Board_Mirror(b) ==
    LET tempSide == 1 - b.side
        SwapPiece == <<EMPTY, PIECE_TYPE_BLACK_PAWN, PIECE_TYPE_BLACK_KNIGHT,
                       PIECE_TYPE_BLACK_BISHOP, PIECE_TYPE_BLACK_ROOK, PIECE_TYPE_BLACK_QUEEN,
                       PIECE_TYPE_BLACK_KING, PIECE_TYPE_WHITE_PAWN, PIECE_TYPE_WHITE_KNIGHT,
                       PIECE_TYPE_WHITE_BISHOP, PIECE_TYPE_WHITE_ROOK, PIECE_TYPE_WHITE_QUEEN,
                       PIECE_TYPE_WHITE_KING>>
        tempCastlePerm ==
            SwapCastle(b.castlePerm, CASTLE_TYPE_WKCA, CASTLE_TYPE_BKCA)
            + SwapCastle(b.castlePerm, CASTLE_TYPE_WQCA, CASTLE_TYPE_BQCA)
            + SwapCastle(b.castlePerm, CASTLE_TYPE_BKCA, CASTLE_TYPE_WKCA)
            + SwapCastle(b.castlePerm, CASTLE_TYPE_BQCA, CASTLE_TYPE_WQCA)
        tempEnPas ==
            IF b.enPas # NO_SQ
            THEN SQUARE_64_TO_120(SQUARE_MIRROR_64(SQUARE_120_TO_64(b.enPas)))
            ELSE NO_SQ
        tempPiecesArray == [squareIndex \in 0..63 |->
                               b.pieces[SQUARE_64_TO_120(SQUARE_MIRROR_64(squareIndex))]]
        Keyed(x) == [x EXCEPT !.posKey = Board_GeneratePositionKey(x)]
    IN Board_UpdateListsMaterial(Keyed(
          [Board_Reset(b) EXCEPT
              !.pieces = [i \in 0..(CHESS_BOARD_SQUARE_NUM - 1) |->
                            IF SqOnBoard(i)
                            THEN Tab(SwapPiece, tempPiecesArray[SQUARE_120_TO_64(i)])
                            ELSE OFFBOARD],
              !.side = tempSide,
              !.castlePerm = tempCastlePerm,
              !.enPas = tempEnPas]))

-----------------------------------------------------------------------------
(* Search: search_algorithm.c *)

\* Search_ClearFor, the board's part: the two ordering tables zeroed and ply reset
\* (the table's counters are not part of the model)
Search_ClearFor(b) ==
    [b EXCEPT !.searchHistory = <<>>, !.searchKillers = <<>>, !.ply = 0]

\* Search_ClearFor, the SearchInfo's part (fh, fhf and nullCut are only counted, never
\* read, and are not part of the model)
Search_ClearForInfo(info0) == [info0 EXCEPT !.stopped = BOOL_TYPE_FALSE, !.nodes = 0]

\* CheckUp: stopFrom is the node count from which the clock has passed stoptime or
\* input is waiting, as Misc_GetTimeMs and Misc_ReadInput then answer
CheckUp(info0, stopFrom) ==
    IF info0.nodes >= stopFrom THEN [info0 EXCEPT !.stopped = BOOL_TYPE_TRUE] ELSE info0

\* the head of Quiescence and AlphaBeta: CheckUp every 2048 nodes, then nodes++
CountNode(info0, stopFrom) ==
    LET Counted(polled) == [polled EXCEPT !.nodes = @ + 1]
    IN Counted(IF info0.nodes % 2048 = 0 THEN CheckUp(info0, stopFrom) ELSE info0)

\* move & MFLAGCAP
MFLAGCAP_Set(move) == MOVE_GET_CAPTURED(move) # EMPTY \/ HasFlag(move, MFLAGEP)

\* PickNextMove on the 0-based position moveNum of list
PickNextMove(moveNum, list) ==
    LET Better(index) ==
            /\ list[index + 1].score > 0
            /\ \A j \in moveNum..(Len(list) - 1) :
                  \/ list[j + 1].score < list[index + 1].score
                  \/ (list[j + 1].score = list[index + 1].score /\ j >= index)
        Swap(bestNum) ==
            [i \in 1..Len(list) |->
                IF i = moveNum + 1 THEN list[bestNum + 1]
                ELSE IF i = bestNum + 1 THEN list[moveNum + 1]
                ELSE list[i]]
    IN IF \E index \in moveNum..(Len(list) - 1) : Better(index)
       THEN Swap(CHOOSE index \in moveNum..(Len(list) - 1) : Better(index))
       ELSE list

\* the indices of board->history that the loop of IsRepetition reads
RepetitionScan(b) == (b.hisPly - b.fiftyMove)..(b.hisPly - 2)

\* board->fiftyMove >= 100, the test of the fifty-move counter in Quiescence and AlphaBeta
FiftyMoveReached(b) == b.fiftyMove >= 100

IsRepetition(b) ==
    B(\E index \in RepetitionScan(b) : b.posKey = History(b, index).posKey)

\* the loop of AlphaBeta that gives the hash move the score 2000000
ScorePvMove(list, PvMove) ==
    [i \in 1..Len(list) |->
        IF list[i].move = PvMove /\ \A j \in 1..(i - 1) : list[j].move # PvMove
        THEN [list[i] EXCEPT !.score = 2000000]
        ELSE list[i]]

\* Move_GenerateAll followed by the loop that scores the hash move
GenerateScored(b, PvMove) ==
    IF PvMove # NOMOVE THEN ScorePvMove(Move_GenerateAll(b), PvMove) ELSE Move_GenerateAll(b)

\* a killer move recorded at the ply of b
AddKiller(b, move) ==
    [b EXCEPT !.searchKillers =
        Put(Put(@, <<1, b.ply>>, SearchKiller(b, 0, b.ply)), <<0, b.ply>>, move)]

\* searchHistory[pieces[from]][to] += depth
AddHistory(b, move, depth) ==
    [b EXCEPT !.searchHistory =
        Put(@, <<b.pieces[MOVE_GET_FROM_SQUARE(move)], MOVE_GET_TO_SQUARE(move)>>,
            SearchHistory(b, b.pieces[MOVE_GET_FROM_SQUARE(move)], MOVE_GET_TO_SQUARE(move))
            + depth)]

\* MoveExists: ret is the return value, board the board it leaves; the rounds
\* first + 1 to final of its loop are run in two halves, found being what the rounds
\* before have left
RECURSIVE MoveExistsFrom(_, _, _, _, _)
MoveExistsFrom(found, list, first, final, move) ==
    LET half == (first + final) \div 2
        Rest(done) == MoveExistsFrom(done, list, half, final, move)
        Tried(made) ==
            LET Taken(taken) ==
                    [ret |-> B(list[first + 1].move = move), board |-> taken]
            IN IF made.ret = BOOL_TYPE_FALSE
               THEN [ret |-> BOOL_TYPE_FALSE, board |-> made.board]
               ELSE Once(Move_Take(made.board), Taken)
    IN IF first >= final \/ found.ret = BOOL_TYPE_TRUE THEN found
       ELSE IF first + 1 = final
       THEN Once(Move_Make(found.board, list[first + 1].move), Tried)
       ELSE Once(MoveExistsFrom(found, list, first, half, move), Rest)

MoveExists(b, move) ==
    LET Generated(list) ==
            MoveExistsFrom([ret |-> BOOL_TYPE_FALSE, board |-> b], list, 0, Len(list),
                           move)
    IN Once(Move_GenerateAll(b), Generated)

\* a principal variation left on the board
TakeToRootLeft(b) == b

\* Move_Take while ply > 0
RECURSIVE TakeToRoot(_)
TakeToRoot(b) ==
    LET Taken(taken) == TakeToRoot(taken)
    IN IF b.ply > 0 THEN Once(Move_Take(b), Taken) ELSE b

\* HashTable_GetPvLine runs one round of its loop at a time (pc "pvline"): move is the
\* move probed last, count the number of moves made.  PvLineMade is the body of the
\* loop, PvLineLeft what the end of the call leaves: count is the return value,
\* board the board after the take back loop
PvLineMade(move, count, b) ==
    LET Made(made) == [move |-> HashTable_ProbePvMove(made), count |-> count + 1,
                       board |-> made]
    IN Once([Move_Make(b, move).board EXCEPT !.PvArray = Put(@, count, move)], Made)

PvLineLeft(count, b) == [count |-> count, board |-> TakeToRoot(b)]

(* AlphaBeta and Quiescence run one step at a time on a machine m: the board, the  *)
(* info, the stack of open frames (the locals of each call that has reached its    *)
(* move loop), the value the call that ended last returned (ret) and where the      *)
(* search is (pc): "loop" at the head of the move loop of the top frame, "return"   *)
(* where a call has just returned to the top frame, or to the driver.              *)

\* the locals of a call; null marks an AlphaBeta waiting for its null-move search
SearchFrame(fn, alpha, beta, depth, InCheck, PvMove, list, null) ==
    [fn |-> fn, alpha |-> alpha, beta |-> beta, depth |-> depth, InCheck |-> InCheck,
     PvMove |-> PvMove, list |-> list, MoveNum |-> 0, Legal |-> 0, OldAlpha |-> alpha,
     BestMove |-> NOMOVE, BestScore |-> -CHESS_INFINITE, null |-> null]

\* return score;
Return(m, score) == [m EXCEPT !.ret = score, !.pc = "return"]

\* the call goes on to its move loop
Push(m, frame) == [m EXCEPT !.stack = Append(@, frame), !.pc = "loop"]

\* the top frame is left
Pop(m) == [m EXCEPT !.stack = SubSeq(@, 1, Len(@) - 1)]

\* the top frame goes on as frame, at the head of its loop
Continue(m, frame) == [m EXCEPT !.stack[Len(m.stack)] = frame, !.pc = "loop"]

\* fn(alpha, beta, depth, board, info, DoNull) is called
Call(m, fn, alpha, beta, depth, DoNull) ==
    [m EXCEPT !.call = [fn |-> fn, alpha |-> alpha, beta |-> beta, depth |-> depth,
                        DoNull |-> DoNull],
              !.pc = "call"]

\* Quiescence without its test of the ply
QuiescenceUnguarded(alpha, beta, stopFrom, m) ==
    LET Counted(m1) ==
            LET Stand(Score) ==
                    IF Score >= beta THEN Return(m1, beta)
                    ELSE Push(m1, SearchFrame("Quiescence",
                                              IF Score > alpha THEN Score ELSE alpha, beta, 0,
                                              BOOL_TYPE_FALSE, NOMOVE,
                                              GenerateAllCaps(m1.board), FALSE))
            IN IF IsRepetition(m1.board) = BOOL_TYPE_TRUE \/ FiftyMoveReached(m1.board)
               THEN Return(m1, 0)
               ELSE Once(Evaluate_Position(m1.board), Stand)
    IN Once([m EXCEPT !.info = CountNode(@, stopFrom)], Counted)

\* Quiescence from its entry to its first return or to its move loop
Quiescence(alpha, beta, stopFrom, m) ==
    LET Counted(m1) ==
            LET Stand(Score) ==
                    IF Score >= beta THEN Return(m1, beta)
                    ELSE Push(m1, SearchFrame("Quiescence",
                                              IF Score > alpha THEN Score ELSE alpha, beta, 0,
                                              BOOL_TYPE_FALSE, NOMOVE,
                                              GenerateAllCaps(m1.board), FALSE))
            IN IF IsRepetition(m1.board) = BOOL_TYPE_TRUE \/ FiftyMoveReached(m1.board)
               THEN Return(m1, 0)
               ELSE IF m1.board.ply > CHESS_MAX_SEARCH_DEPTH - 1
               THEN Return(m1, Evaluate_Position(m1.board))
               ELSE Once(Evaluate_Position(m1.board), Stand)
    IN Once([m EXCEPT !.info = CountNode(@, stopFrom)], Counted)

\* AlphaBeta from its entry to its first return, to the call of Quiescence or of its
\* null-move search, or to its move loop
AlphaBeta(alpha, beta, depth0, DoNull, stopFrom, m) ==
    LET Counted(m1) ==
            LET Checked(InCheck) ==
                    LET depth == IF InCheck = BOOL_TYPE_TRUE THEN depth0 + 1 ELSE depth0
                        Probed(probe) ==
                            IF probe.ret = BOOL_TYPE_TRUE THEN Return(m1, probe.score)
                            ELSE IF DoNull = BOOL_TYPE_TRUE /\ InCheck = BOOL_TYPE_FALSE
                                    /\ m1.board.ply # 0
                                    /\ m1.board.bigPce[m1.board.side] > 0 /\ depth >= 4
                            THEN Call([Push(m1, SearchFrame("AlphaBeta", alpha, beta, depth,
                                                            InCheck, probe.move, <<>>, TRUE))
                                         EXCEPT !.board = MakeNullMove(@)],
                                      "AlphaBeta", -beta, -beta + 1, depth - 4, BOOL_TYPE_FALSE)
                            ELSE Push(m1, SearchFrame("AlphaBeta", alpha, beta, depth, InCheck,
                                                      probe.move,
                                                      GenerateScored(m1.board, probe.move),
                                                      FALSE))
                    IN Once(HashTable_ProbeEntry(m1.board, NOMOVE, -CHESS_INFINITE, alpha,
                                                 beta, depth),
                            Probed)
            IN IF (IsRepetition(m1.board) = BOOL_TYPE_TRUE \/ FiftyMoveReached(m1.board))
                  /\ m1.board.ply # 0
               THEN Return(m1, 0)
               ELSE IF m1.board.ply > CHESS_MAX_SEARCH_DEPTH - 1
               THEN Return(m1, Evaluate_Position(m1.board))
               ELSE Once(B(Attack_IsSquareAttacked(m1.board.KingSq[m1.board.side],
                                                   Flip(m1.board.side), m1.board)),
                         Checked)
    IN IF depth0 <= 0 THEN Call(m, "Quiescence", alpha, beta, 0, BOOL_TYPE_FALSE)
       ELSE Once([m EXCEPT !.info = CountNode(@, stopFrom)], Counted)

\* the entry of the function that has been called
SearchCall(stopFrom, m) ==
    IF m.call.fn = "Quiescence" THEN Quiescence(m.call.alpha, m.call.beta, stopFrom, m)
    ELSE AlphaBeta(m.call.alpha, m.call.beta, m.call.depth, m.call.DoNull, stopFrom, m)

\* one pass through the head of the move loop of the top frame: the next move is
\* picked and made and, if legal, the search of it called; or the loop has ended and
\* the call returns
SearchLoop(m) ==
    LET Framed(f) ==
            LET Picked(picked) ==
                    LET Tried(made) ==
                            IF made.ret = BOOL_TYPE_FALSE
                            THEN Continue([m EXCEPT !.board = made.board],
                                          [f EXCEPT !.list = picked, !.MoveNum = @ + 1])
                            ELSE Call(Continue([m EXCEPT !.board = made.board],
                                               [f EXCEPT !.list = picked, !.Legal = @ + 1]),
                                      f.fn, -f.beta, -f.alpha,
                                      IF f.fn = "Quiescence" THEN 0 ELSE f.depth - 1,
                                      BOOL_TYPE_TRUE)
                    IN Once(Move_Make(m.board, picked[f.MoveNum + 1].move), Tried)
                Ended(m1) ==
                    IF f.fn = "Quiescence" THEN Return(m1, f.alpha)
                    ELSE IF f.Legal = 0
                    THEN Return(m1, IF f.InCheck = BOOL_TYPE_TRUE
                                    THEN -CHESS_INFINITE + m1.board.ply ELSE 0)
                    ELSE IF f.alpha # f.OldAlpha
                    THEN Return([m1 EXCEPT !.board = HashTable_StoreEntry(@, f.BestMove,
                                                        f.BestScore, HFEXACT, f.depth)],
                                f.alpha)
                    ELSE Return([m1 EXCEPT !.board = HashTable_StoreEntry(@, f.BestMove,
                                                        f.alpha, HFALPHA, f.depth)],
                                f.alpha)
            IN IF f.MoveNum < Len(f.list) THEN Once(PickNextMove(f.MoveNum, f.list), Picked)
               ELSE Once(Pop(m), Ended)
    IN Once(m.stack[Len(m.stack)], Framed)

\* a test of the stop flag that never finds it set
SearchStoppedIgnored(m) == FALSE

\* if(info->stopped == BOOL_TYPE_TRUE), the test after a move is taken back
SearchStopped(m) == m.info.stopped = BOOL_TYPE_TRUE

\* a call has returned m.ret to the top frame: the move is taken back and the loop
\* goes on or the call returns in its turn
SearchReturn(m) ==
    LET Framed(f) ==
            LET Score == -m.ret
                move == f.list[f.MoveNum + 1].move
                Next(frame) == [frame EXCEPT !.MoveNum = @ + 1]
                NullTaken(m1) ==
                    IF SearchStopped(m1) THEN Return(Pop(m1), 0)
                    ELSE IF Score >= f.beta /\ Abs(Score) < CHESS_IS_MATE
                    THEN Return(Pop(m1), f.beta)
                    ELSE Continue(m1, [f EXCEPT !.null = FALSE,
                                                !.list = GenerateScored(m1.board, f.PvMove)])
                Taken(m1) ==
                    IF SearchStopped(m1) THEN Return(Pop(m1), 0)
                    ELSE IF f.fn = "Quiescence"
                    THEN IF Score > f.alpha
                         THEN IF Score >= f.beta THEN Return(Pop(m1), f.beta)
                              ELSE Continue(m1, Next([f EXCEPT !.alpha = Score]))
                         ELSE Continue(m1, Next(f))
                    ELSE IF Score > f.BestScore
                    THEN IF Score > f.alpha
                         THEN IF Score >= f.beta
                              THEN Return(Pop([m1 EXCEPT !.board =
                                                 HashTable_StoreEntry(
                                                     IF MFLAGCAP_Set(move) THEN @
                                                     ELSE AddKiller(@, move),
                                                     move, f.beta, HFBETA, f.depth)]),
                                          f.beta)
                              ELSE Continue([m1 EXCEPT !.board =
                                               IF MFLAGCAP_Set(move) THEN @
                                               ELSE AddHistory(@, move, f.depth)],
                                            Next([f EXCEPT !.BestScore = Score,
                                                           !.BestMove = move,
                                                           !.alpha = Score]))
                         ELSE Continue(m1, Next([f EXCEPT !.BestScore = Score,
                                                          !.BestMove = move]))
                    ELSE Continue(m1, Next(f))
            IN IF f.null THEN Once([m EXCEPT !.board = TakeNullMove(@)], NullTaken)
               ELSE Once([m EXCEPT !.board = Move_Take(@)], Taken)
    IN Once(m.stack[Len(m.stack)], Framed)

-----------------------------------------------------------------------------
(* The SDL front end: sdl_gui.c.  A click is given by what SquareFromCoords and *)
(* GUI_HandlePromotionClick make of its coordinates: a square or NO_SQ, and the *)
(* letter of a piece of the promotion dialog or "NUL".  Every function returns  *)
(* the GUI aggregate and the board it leaves.                                   *)

\* the file and rank characters that the snprintf calls write for a square
SquareText(sq) == <<FileChars[g_filesBoard[sq] + 1], RankChars[g_ranksBoard[sq] + 1]>>

SetGameOver(g, b) ==
    LET Message(text) == [g EXCEPT !.gameOver = 1, !.gameOverMessage = text]
    IN IF b.fiftyMove > 100 THEN Message("DRAW! Fifty Move Rule")
       ELSE IF ThreeFoldRep(b) >= 2 THEN Message("DRAW! Threefold Repetition")
       ELSE IF DrawMaterial(b) = BOOL_TYPE_TRUE THEN Message("DRAW! Insufficient Material")
       ELSE IF Attack_IsSquareAttacked(b.KingSq[b.side], 1 - b.side, b)
       THEN IF b.side = COLOR_TYPE_WHITE THEN Message("CHECKMATE! Black Wins!")
            ELSE Message("CHECKMATE! White Wins!")
       ELSE Message("DRAW! Stalemate")

IsPawnPromotion(b, fromSq, toSq) ==
    IF Tab(g_piecePawn, b.pieces[fromSq]) = 0 THEN 0
    ELSE IF b.pieces[fromSq] = PIECE_TYPE_WHITE_PAWN /\ g_ranksBoard[toSq] = RANK_TYPE_8
    THEN 1
    ELSE IF b.pieces[fromSq] = PIECE_TYPE_BLACK_PAWN /\ g_ranksBoard[toSq] = RANK_TYPE_1
    THEN 1
    ELSE 0

\* UpdateTimer: ranOut says that the time elapsed since the last reading of the clock
\* is more than the side to move has left
UpdateTimer(g, b, ranOut) ==
    IF g.timerActive = 0 \/ g.timerPaused # 0 \/ g.gameOver # 0 THEN g
    ELSE IF ~ranOut THEN g
    ELSE [g EXCEPT !.gameOver = 1, !.timerActive = 0,
                   !.gameOverMessage = IF b.side = COLOR_TYPE_WHITE
                                       THEN "TIME OUT! Black Wins!"
                                       ELSE "TIME OUT! White Wins!"]

\* CalculatePossibleMoves makes and takes back every generated move: the board it
\* leaves (the squares it collects are only drawn)
CalculatePossibleMoves(b) == MoveExists(b, NOMOVE).board

\* the move of the engine so far, after one more move was made, scored and taken back
GuiBetter(best, move, score, taken) ==
    IF score > best.bestScore
    THEN [engineMove |-> move, bestScore |-> score, board |-> taken]
    ELSE [best EXCEPT !.board = taken]

\* the loop that picks the move of the engine in MODE_PVE: the rounds first + 1 to
\* final, run in two halves; best holds engineMove, bestScore and the board
RECURSIVE GuiEngineMoveFrom(_, _, _, _)
GuiEngineMoveFrom(best, list, first, final) ==
    LET half == (first + final) \div 2
        SecondHalf(done) == GuiEngineMoveFrom(done, list, half, final)
        Attempted(made) ==
            IF made.ret = BOOL_TYPE_FALSE THEN [best EXCEPT !.board = made.board]
            ELSE GuiBetter(best, list[first + 1].move, -Evaluate_Position(made.board),
                           Move_Take(made.board))
    IN IF first >= final THEN best
       ELSE IF first + 1 = final
       THEN Once(Move_Make(best.board, list[first + 1].move), Attempted)
       ELSE Once(GuiEngineMoveFrom(best, list, first, half), SecondHalf)

\* if (gui->gameOver), the test GUI_HandleMouseClick makes before it reads a square
GameIsOver(g) == g.gameOver # 0

(* GUI_HandleMouseClick runs as a sequence of steps on a click x: the GUI, the board, *)
(* the square and the choice clicked, the move in hand, whether the click is on the  *)
(* promotion dialog, and where the handler is (at); "return" is where it has         *)
(* returned.                                                                         *)

\* lines 1040-1054 and 1129-1140: the dialog's branch up to its move text, the test of
\* gameOver and the checkresult at the start of a turn
GuiClickEntered(x) ==
    LET Turn(r) ==
            IF r.ret = BOOL_TYPE_TRUE
            THEN [x EXCEPT !.gui = SetGameOver(x.gui, r.board), !.board = r.board,
                           !.at = "return"]
            ELSE [x EXCEPT !.board = r.board, !.at = "square"]
    IN IF x.gui.promotionPending # 0
       THEN IF x.choice = "NUL" THEN [x EXCEPT !.at = "return"]
            ELSE [x EXCEPT !.at = "parse", !.promotion = TRUE,
                           !.text = SquareText(x.gui.promotionFromSq)
                                      \o SquareText(x.gui.promotionToSq) \o <<x.choice>>]
       ELSE IF GameIsOver(x.gui) THEN [x EXCEPT !.at = "return"]
       ELSE Once(checkresult(x.board), Turn)

\* lines 1143-1198: the square clicked selects a piece, deselects it, opens the
\* promotion dialog or names a move of four characters
GuiSquareClicked(x) ==
    IF x.at # "square" THEN x
    ELSE IF x.clickedSquare = NO_SQ THEN [x EXCEPT !.at = "return"]
    ELSE IF x.gui.selectedSquare = NO_SQ
    THEN IF x.board.pieces[x.clickedSquare] # EMPTY
            /\ x.board.pieces[x.clickedSquare] # OFFBOARD
            /\ \/ /\ x.board.side = COLOR_TYPE_WHITE
                  /\ IsWhitePiece(x.board.pieces[x.clickedSquare])
               \/ /\ x.board.side = COLOR_TYPE_BLACK
                  /\ IsBlackPiece(x.board.pieces[x.clickedSquare])
         THEN [x EXCEPT !.gui.selectedSquare = x.clickedSquare,
                        !.board = CalculatePossibleMoves(x.board), !.at = "return"]
         ELSE [x EXCEPT !.at = "return"]
    ELSE IF x.clickedSquare = x.gui.selectedSquare
    THEN [x EXCEPT !.gui.selectedSquare = NO_SQ, !.at = "return"]
    ELSE IF IsPawnPromotion(x.board, x.gui.selectedSquare, x.clickedSquare) = 1
    THEN [x EXCEPT !.gui.promotionPending = 1,
                   !.gui.promotionFromSq = x.gui.selectedSquare,
                   !.gui.promotionToSq = x.clickedSquare, !.at = "return"]
    ELSE [x EXCEPT !.at = "parse",
                   !.text = SquareText(x.gui.selectedSquare) \o SquareText(x.clickedSquare)]

\* lines 1054-1055 and 1203-1204, 1338-1341: Move_Parse on the move text
GuiMoveParsed(x) ==
    LET Read(move) ==
            IF move # NOMOVE THEN [x EXCEPT !.move = move, !.at = "make"]
            ELSE IF x.promotion THEN [x EXCEPT !.at = "return"]
            ELSE [x EXCEPT !.gui.selectedSquare = NO_SQ, !.at = "return"]
    IN IF x.at # "parse" THEN x ELSE Once(Move_Parse(x.text, x.board), Read)

\* lines 1055-1075 and 1207-1233, 1327-1329: Move_Make on the move, and the GUI after it
GuiMoveMade(x) ==
    LET Attempted(made) ==
            IF made.ret = BOOL_TYPE_TRUE
            THEN IF x.promotion
                 THEN [x EXCEPT !.board = made.board, !.at = "moved",
                                !.gui.promotionPending = 0, !.gui.promotionFromSq = NO_SQ,
                                !.gui.promotionToSq = NO_SQ, !.gui.selectedSquare = NO_SQ,
                                !.gui.timerActive = 1]
                 ELSE [x EXCEPT !.board = made.board, !.at = "moved",
                                !.gui.selectedSquare = NO_SQ, !.gui.timerActive = 1]
            ELSE IF x.promotion THEN [x EXCEPT !.board = made.board, !.at = "return"]
            ELSE [x EXCEPT !.board = made.board, !.at = "refused",
                           !.gui.selectedSquare = NO_SQ]
    IN IF x.at # "make" THEN x ELSE Once(Move_Make(x.board, x.move), Attempted)

\* lines 1078-1084 and 1243-1252, 1332-1336: checkresult after the move of the user,
\* made or refused
GuiResultAsked(x) ==
    LET Asked(r) ==
            IF r.ret = BOOL_TYPE_TRUE
            THEN [x EXCEPT !.gui = SetGameOver(x.gui, r.board), !.board = r.board,
                           !.at = "return"]
            ELSE IF x.at = "moved" /\ x.gui.gameMode = "MODE_PVE"
            THEN [x EXCEPT !.board = r.board, !.at = "engine"]
            ELSE [x EXCEPT !.board = r.board, !.at = "return"]
    IN IF x.at \notin {"moved", "refused"} THEN x ELSE Once(checkresult(x.board), Asked)

\* lines 1085-1105 and 1256-1285, 1313-1316: the engine picks its move; where it finds
\* none, checkresult is asked after a move of four characters only
GuiEngineChosen(x) ==
    LET Chosen(best) ==
            IF best.engineMove # NOMOVE
            THEN [x EXCEPT !.board = best.board, !.move = best.engineMove, !.at = "reply"]
            ELSE IF x.promotion THEN [x EXCEPT !.board = best.board, !.at = "return"]
            ELSE [x EXCEPT !.board = best.board, !.at = "replied"]
        Listed(list) ==
            GuiEngineMoveFrom([engineMove |-> NOMOVE, bestScore |-> -999999,
                               board |-> x.board], list, 0, Len(list))
    IN IF x.at # "engine" THEN x
       ELSE Once(Once(Move_GenerateAll(x.board), Listed), Chosen)

\* lines 1109 and 1293: the move of the engine
GuiEngineMoved(x) ==
    IF x.at # "reply" THEN x
    ELSE [x EXCEPT !.board = Move_Make(x.board, x.move).board, !.at = "replied"]

\* lines 1118-1120 and 1308-1320: checkresult after the turn of the engine
GuiEngineAsked(x) ==
    LET Asked(r) ==
            IF r.ret = BOOL_TYPE_TRUE
            THEN [x EXCEPT !.gui = SetGameOver(x.gui, r.board), !.board = r.board,
                           !.at = "return"]
            ELSE [x EXCEPT !.board = r.board, !.at = "return"]
    IN IF x.at # "replied" THEN x ELSE Once(checkresult(x.board), Asked)

GuiReturned(x) == [gui |-> x.gui, board |-> x.board]

GUI_HandleMouseClick(g, b, clickedSquare, choice) ==
    GuiReturned(
        Once(Once(Once(Once(Once(Once(Once(
            GuiClickEntered([gui |-> g, board |-> b, clickedSquare |-> clickedSquare,
                             choice |-> choice, text |-> <<>>, move |-> NOMOVE,
                             promotion |-> FALSE, at |-> "enter"]),
            GuiSquareClicked), GuiMoveParsed), GuiMoveMade), GuiResultAsked),
            GuiEngineChosen), GuiEngineMoved), GuiEngineAsked))

\* the M key of GUI_Run
GuiSwitchMode(g) ==
    [g EXCEPT !.gameMode = IF g.gameMode = "MODE_PVE" THEN "MODE_PVP" ELSE "MODE_PVE"]

-----------------------------------------------------------------------------
(* Inputs of the model: position texts and move texts, one character per element *)

\* 4k2r/7p/8/8/8/8/P7/R3K3 w Qk - 0 1
FenCastling ==
    <<"4", "k", "2", "r", "/", "7", "p", "/", "8", "/", "8", "/", "8", "/", "8", "/", "P", "7", "/", "R", "3", "K", "3", " ", "w", " ", "Q", "k", " ", "-", " ", "0", " ", "1">>

\* 4k3/P6p/8/8/1p5P/2P5/P7/4K3 w - - 0 1
FenPawns ==
    <<"4", "k", "3", "/", "P", "6", "p", "/", "8", "/", "8", "/", "1", "p", "5", "P", "/", "2", "P", "5", "/", "P", "7", "/", "4", "K", "3", " ", "w", " ", "-", " ", "-", " ", "0", " ", "1">>

\* 4k3/8/8/8/pP6/8/8/4K3 b - b3 0 1
FenEnPassant ==
    <<"4", "k", "3", "/", "8", "/", "8", "/", "8", "/", "p", "P", "6", "/", "8", "/", "8", "/", "4", "K", "3", " ", "b", " ", "-", " ", "b", "3", " ", "0", " ", "1">>

\* 4k3/8/8/8/8/8/8/4X3 w - - 0 1
FenMalformed ==
    <<"4", "k", "3", "/", "8", "/", "8", "/", "8", "/", "8", "/", "8", "/", "8", "/", "4", "X", "3", " ", "w", " ", "-", " ", "-", " ", "0", " ", "1">>

FenTexts == {FenCastling, FenPawns, FenEnPassant, FenMalformed}
WellFormedFenTexts == {FenCastling, FenPawns, FenEnPassant}

\* scores, windows <<alpha, beta>> and depths handed to the transposition table: ordinary
\* scores and mate scores (beyond CHESS_IS_MATE) of either sign
HashScores == {-29950, 50, 29950}
HashWindows == { <<-CHESS_INFINITE, CHESS_INFINITE>>, <<49, 51>>,
                 <<29950, 29951>>, <<-29951, -29950>> }
HashDepths == {1, 2}
\* the sizes asked for in megabytes: below the minimum, the minimum, the default
HashSizes == {1, 4, 64}
\* the sizes HashTable_Init is called with, and the bytes the allocator can give:
\* none, enough for 1 MB, for 16 MB, for any size asked
AllocSizes == {4, 64, CHESS_MAX_HASH}
AvailBytes == {0, 1100000, 20000000, 1024 * 1048576}
\* the squares the moves of the games explored start from: the knights' squares
GameFromSquares == {B1, G1, B8, G8}

\* 4k3/8/8/8/8/8/4P3/4K3 w - - 0 1
FenPawnEnding ==
    <<"4", "k", "3", "/", "8", "/", "8", "/", "8", "/", "8", "/", "8", "/", "4", "P", "3", "/", "4", "K", "3", " ", "w", " ", "-", " ", "-", " ", "0", " ", "1">>

\* 4k3/8/8/8/8/8/3p4/4K3 w - - 0 1
FenInCheck ==
    <<"4", "k", "3", "/", "8", "/", "8", "/", "8", "/", "8", "/", "8", "/", "3", "p", "4", "/", "4", "K", "3", " ", "w", " ", "-", " ", "-", " ", "0", " ", "1">>

\* 7k/5Q2/6K1/8/8/8/8/8 b - - 0 1
FenStalemate ==
    <<"7", "k", "/", "5", "Q", "2", "/", "6", "K", "1", "/", "8", "/", "8", "/", "8", "/", "8", "/", "8", " ", "b", " ", "-", " ", "-", " ", "0", " ", "1">>

\* rnbqkbnr/pppppppp/8/8/8/8/PPPPPPPP/RNBQKBNR w KQkq - 0 1
CHESS_START_FEN ==
    <<"r", "n", "b", "q", "k", "b", "n", "r", "/", "p", "p", "p", "p", "p", "p", "p", "p", "/", "8", "/", "8", "/", "8", "/", "8", "/", "P", "P", "P", "P", "P", "P", "P", "P", "/", "R", "N", "B", "Q", "K", "B", "N", "R", " ", "w", " ", "K", "Q", "k", "q", " ", "-", " ", "0", " ", "1">>

SearchFenTexts == {CHESS_START_FEN, FenPawnEnding, FenInCheck, FenStalemate}

\* the depth limits of a search, the node counts from which the clock or the input
\* stops it (NoStop: never), and the moves a user answers with
SearchDepths == 1..MaxDepth
NoStop == 2048 * 2048
StopFroms == {0, NoStop}
SearchMoveTexts == { <<"e", "2", "e", "4">>, <<"e", "1", "d", "2">>, <<"e", "8", "e", "7">> }

MoveTexts == { <<"a", "2", "a", "4">>, <<"a", "7", "a", "8", "q">>, <<"a", "7", "a", "8">>,
               <<"e", "1", "c", "1">>, <<"e", "1", "e", "9">>, <<"h", "7", "h", "6">> }

-----------------------------------------------------------------------------
(* The state machines.  board is the ChessBoard, info the SearchInfo; last is a *)
(* record of the most recent call: its name, its move and return value, the     *)
(* board it was called on (pre), and n, the number of calls counted so far;     *)
(* stored[i] holds the arguments, and the ply, of the latest                    *)
(* HashTable_StoreEntry into slot i of the table.                               *)

SearchInfo == [stopped |-> BOOL_TYPE_FALSE, nodes |-> 0, depth |-> 0,
               GAME_MODE |-> MODE_TYPE_UCI]

\* the GUI aggregate as GUI_Init leaves it, the window and the renderer created.
\* The fields that only the drawing reads (the textures, the move history, the
\* highlighted squares) and the clock readings are left out.
GUI == [selectedSquare |-> NO_SQ, gameOver |-> 0, gameOverMessage |-> "",
        gameMode |-> "MODE_PVP", timerActive |-> 0, timerPaused |-> 0,
        promotionPending |-> 0, promotionFromSq |-> NO_SQ, promotionToSq |-> NO_SQ]

\* no search in flight
Idle ==
    [pc |-> "idle", op |-> "", stack |-> <<>>, call |-> <<>>, ret |-> 0, currentDepth |-> 0,
     bestMove |-> NOMOVE, pvMoves |-> 0, stopFrom |-> 0, pre |-> ChessBoard]

Last(op, move, ret, pre, made, orig, text) ==
    [op |-> op, move |-> move, ret |-> ret, pre |-> pre, made |-> made, orig |-> orig,
     text |-> text, args |-> <<>>, n |-> 0]

\* the record of one more call
Called(r) == [r EXCEPT !.n = last.n + 1]

Range(list) == {list[i] : i \in DOMAIN list}

\* the board and the record left by a Move_Make that returned r
Made(move, r) ==
    /\ board' = r.board
    /\ last' = Called(Last("make", move, r.ret, board, FALSE, board, <<>>))

\* the board and the record left by a Board_ParseFromFEN that returned r
Parsed(fen, r) ==
    /\ board' = r.board
    /\ last' = Called(Last("fen", NOMOVE, r.ret, board, FALSE, board, fen))

\* a position set up from a well-formed text, as a front end does at start-up
Init ==
    /\ \E fen \in WellFormedFenTexts :
          /\ board = Board_ParseFromFEN(fen,
                        [ChessBoard EXCEPT !.HashTable = HashTable_Init(@, 64)]).board
          /\ last = Last("fen", NOMOVE, 0, ChessBoard, FALSE, ChessBoard, fen)
    /\ info = SearchInfo
    /\ stored = <<>>
    /\ search = Idle
    /\ gui = GUI

\* Move_Make on a move of Move_GenerateAll (accepted, or rejected and reverted)
DoMakeMove ==
    /\ last.n < MaxOps
    /\ SideValid(board.side)
    /\ board.hisPly < MaxHisPly
    /\ \E entry \in Range(Move_GenerateAll(board)) : Made(entry.move, Move_Make(board, entry.move))
    /\ UNCHANGED <<info, stored, search, gui>>

\* Move_Take of the most recent move; made says that the previous call was the
\* accepted Move_Make being undone, and orig is then the board before that Move_Make
DoTakeMove ==
    /\ last.n < MaxOps
    /\ SideValid(board.side)
    /\ board.hisPly > 0
    /\ History(board, board.hisPly - 1).move # NOMOVE
    /\ board' = Move_Take(board)
    /\ LET made == last.op = "make" /\ last.ret = BOOL_TYPE_TRUE
       IN last' = Called(Last("take", History(board, board.hisPly - 1).move, 0, board, made,
                              IF made THEN last.pre ELSE board, <<>>))
    /\ UNCHANGED <<info, stored, search, gui>>

\* MakeNullMove: called only when the side to move is not in check
DoMakeNullMove ==
    /\ last.n < MaxOps
    /\ SideValid(board.side)
    /\ board.hisPly < MaxHisPly
    /\ ~Attack_IsSquareAttacked(board.KingSq[board.side], Flip(board.side), board)
    /\ board' = MakeNullMove(board)
    /\ last' = Called(Last("makenull", NOMOVE, 0, board, FALSE, board, <<>>))
    /\ UNCHANGED <<info, stored, search, gui>>

DoTakeNullMove ==
    /\ last.n < MaxOps
    /\ SideValid(board.side)
    /\ board.hisPly > 0
    /\ History(board, board.hisPly - 1).move = NOMOVE
    /\ board' = TakeNullMove(board)
    /\ LET made == last.op = "makenull"
       IN last' = Called(Last("takenull", NOMOVE, 0, board, made,
                              IF made THEN last.pre ELSE board, <<>>))
    /\ UNCHANGED <<info, stored, search, gui>>

\* the executor driven by a search or a front end
Next ==
    \/ DoMakeMove
    \/ DoTakeMove
    \/ DoMakeNullMove
    \/ DoTakeNullMove

Spec == Init /\ [][Next]_vars

\* the xboard setboard command: the text goes to Board_ParseFromFEN and the return
\* value is dropped (the engineSide of the loop is not part of the model)
DoSetBoard(fen) ==
    /\ last.n < MaxFrontOps
    /\ Parsed(fen, Board_ParseFromFEN(fen, board))
    /\ UNCHANGED <<info, stored, search, gui>>

\* the record and the board left by a usermove command whose text parsed as move
UserMoved(text, move) ==
    LET Played(r) ==
            /\ board' = [r.board EXCEPT !.ply = 0]
            /\ last' = Called(Last("usermove", move, r.ret, board, FALSE, board, text))
    IN IF move = NOMOVE
       THEN /\ board' = board
            /\ last' = Called(Last("usermove", NOMOVE, -1, board, FALSE, board, text))
       ELSE Played(Move_Make(board, move))

\* the xboard usermove command: Move_Parse, then Move_Make unless it gave NOMOVE
\* (the movestogo counter of the loop is not part of the model)
DoUserMove(text) ==
    /\ last.n < MaxFrontOps
    /\ SideValid(board.side)
    /\ UserMoved(text, Move_Parse(text, board))
    /\ UNCHANGED <<info, stored, search, gui>>

NextFront ==
    \/ \E fen \in FenTexts : DoSetBoard(fen)
    \/ \E text \in MoveTexts : DoUserMove(text)

SpecFront == Init /\ [][NextFront]_vars

\* the table is probed and stored into between the moves of a search and of a game
\* (MaxHashOps bounds the moves explored, and a probe is not counted)
\* the table as the search of an earlier position has left it: one entry stored
SearchedBefore(fen, table) ==
    LET Searched(b) ==
            HashTable_StoreEntry(b, Head(Move_GenerateAll(b)).move, 50, HFEXACT, 1)
    IN Searched(Board_ParseFromFEN(fen, [ChessBoard EXCEPT !.HashTable = table]).board)

InitHash ==
    /\ board = Board_ParseFromFEN(FenEnPassant,
                    SearchedBefore(FenPawnEnding, HashTable_Init(ChessBoard.HashTable, 64))).board
    /\ last = Last("fen", NOMOVE, 0, ChessBoard, FALSE, ChessBoard, FenEnPassant)
    /\ info = SearchInfo
    /\ stored = <<>>
    /\ search = Idle
    /\ gui = GUI

DoHashMakeMove ==
    /\ last.n < MaxHashOps
    /\ \E entry \in Range(Move_GenerateAll(board)) : Made(entry.move, Move_Make(board, entry.move))
    /\ UNCHANGED <<info, stored, search, gui>>

DoHashTakeMove ==
    /\ last.n < MaxHashOps
    /\ board.hisPly > 0
    /\ board.ply > 0
    /\ board' = Move_Take(board)
    /\ last' = Called(Last("take", History(board, board.hisPly - 1).move, 0, board, FALSE,
                           board, <<>>))
    /\ UNCHANGED <<info, stored, search, gui>>

\* the start of a new search on the position the game has reached
DoClearForSearch ==
    /\ last.n < MaxHashOps
    /\ board' = Search_ClearFor(board)
    /\ last' = Called(Last("clear", NOMOVE, 0, board, FALSE, board, <<>>))
    /\ UNCHANGED <<info, stored, search, gui>>

\* the board, the record and the note left by a HashTable_StoreEntry of move
Stored(move, score, flags, depth) ==
    /\ board' = HashTable_StoreEntry(board, move, score, flags, depth)
    /\ stored' = Put(stored, HashIndex(board),
                     [posKey |-> board.posKey, move |-> move, score |-> score,
                      flags |-> flags, depth |-> depth, ply |-> board.ply])
    /\ last' = [Last("store", move, 0, board, FALSE, board, <<>>)
                EXCEPT !.n = last.n,
                       !.args = [score |-> score, flags |-> flags, depth |-> depth]]

\* a search stores its result for the position: the move is the first generated one
\* (MaxStores bounds the slots written; a written slot is written again freely)
DoStoreEntry(score, flags, depth) ==
    /\ Cardinality(DOMAIN stored) < MaxStores \/ HashIndex(board) \in DOMAIN stored
    /\ Move_GenerateAll(board) # <<>>
    /\ Stored(Head(Move_GenerateAll(board)).move, score, flags, depth)
    /\ UNCHANGED <<info, search, gui>>

\* the record left by a HashTable_ProbeEntry that returned r
Probed(alpha, beta, depth, r) ==
    last' = [Last("probe", r.move, r.ret, board, FALSE, board, <<>>)
                EXCEPT !.n = last.n,
                       !.args = [alpha |-> alpha, beta |-> beta, depth |-> depth,
                                 score |-> r.score]]

DoProbeEntry(alpha, beta, depth) ==
    /\ alpha < beta
    /\ Probed(alpha, beta, depth,
              HashTable_ProbeEntry(board, NOMOVE, -CHESS_INFINITE, alpha, beta, depth))
    /\ UNCHANGED <<board, info, stored, search, gui>>

NextHash ==
    \/ DoHashMakeMove
    \/ DoHashTakeMove
    \/ DoClearForSearch
    \/ \E score \in HashScores, flags \in {HFALPHA, HFBETA, HFEXACT}, depth \in HashDepths :
          DoStoreEntry(score, flags, depth)
    \/ \E window \in HashWindows, depth \in HashDepths :
          DoProbeEntry(window[1], window[2], depth)

SpecHash == InitHash /\ [][NextHash]_vars

\* the games of a front end around the table: the engine starts on the starting
\* position with the table of main, entries are stored and probed, moves are played,
\* and the front end starts a new game or resizes the table
InitGame ==
    /\ board = Board_ParseFromFEN(CHESS_START_FEN,
                    [ChessBoard EXCEPT !.HashTable = HashTable_Init(@, 64)]).board
    /\ last = Last("fen", NOMOVE, 0, ChessBoard, FALSE, ChessBoard, CHESS_START_FEN)
    /\ info = SearchInfo
    /\ stored = <<>>
    /\ search = Idle
    /\ gui = GUI

\* the new-game command of a front end: "new" of XBoard_Loop and Console_Loop
\* clears the table and sets up the starting position; "ucinewgame" of Uci_Loop
\* runs ParsePosition("position startpos\n") and the N key of the GUI
\* Board_ParseFromFEN(CHESS_START_FEN) alone
NewGame(frontEnd, b) ==
    IF frontEnd \in {"xboard", "console"}
    THEN Board_ParseFromFEN(CHESS_START_FEN,
                            [b EXCEPT !.HashTable = HashTable_Clear(@)]).board
    ELSE Board_ParseFromFEN(CHESS_START_FEN, b).board

DoNewGame(frontEnd) ==
    /\ last.n < MaxGameOps
    /\ board' = NewGame(frontEnd, board)
    /\ last' = [Called(Last("new", NOMOVE, 0, board, FALSE, board, <<>>))
                  EXCEPT !.args = [frontEnd |-> frontEnd]]
    /\ UNCHANGED <<info, stored, search, gui>>

\* "memory N" of XBoard_Loop and "setoption name Hash value N" of Uci_Loop: N is
\* brought into 4..CHESS_MAX_HASH and the table allocated anew
DoResize(N) ==
    /\ last.n < MaxGameOps
    /\ LET MB == IF N < 4 THEN 4 ELSE IF N > CHESS_MAX_HASH THEN CHESS_MAX_HASH ELSE N
       IN /\ board' = [board EXCEPT !.HashTable = HashTable_Init(@, MB)]
          /\ last' = [Called(Last("resize", NOMOVE, 0, board, FALSE, board, <<>>))
                        EXCEPT !.args = [MB |-> MB]]
    /\ UNCHANGED <<info, stored, search, gui>>

DoGameMakeMove ==
    /\ last.n < MaxGameOps
    /\ \E entry \in Range(Move_GenerateAll(board)) :
          /\ MOVE_GET_FROM_SQUARE(entry.move) \in GameFromSquares
          /\ Made(entry.move, Move_Make(board, entry.move))
    /\ UNCHANGED <<info, stored, search, gui>>

NextGame ==
    \/ \E frontEnd \in {"xboard", "console", "uci", "gui"} : DoNewGame(frontEnd)
    \/ \E N \in HashSizes : DoResize(N)
    \/ DoGameMakeMove
    \/ \E depth \in HashDepths : DoStoreEntry(50, HFEXACT, depth)
    \/ \E depth \in HashDepths : DoProbeEntry(-CHESS_INFINITE, CHESS_INFINITE, depth)

SpecGame == InitGame /\ [][NextGame]_vars

\* 1n2k1n1/8/8/8/8/8/8/1N2K1N1 w - - 0 1
FenKnights ==
    <<"1", "n", "2", "k", "1", "n", "1", "/", "8", "/", "8", "/", "8", "/", "8", "/", "8", "/", "8", "/", "1", "N", "2", "K", "1", "N", "1", " ", "w", " ", "-", " ", "-", " ", "0", " ", "1">>

\* 4k3/8/8/8/8/8/8/4K3 w - - 0 1
FenKings ==
    <<"4", "k", "3", "/", "8", "/", "8", "/", "8", "/", "8", "/", "8", "/", "8", "/", "4", "K", "3", " ", "w", " ", "-", " ", "-", " ", "0", " ", "1">>

\* the knight moves of a game that goes back and forth
ResultMoveTexts ==
    { <<"g", "1", "f", "3">>, <<"f", "3", "g", "1">>, <<"b", "1", "c", "3">>, <<"c", "3", "b", "1">>,
      <<"g", "8", "f", "6">>, <<"f", "6", "g", "8">>, <<"b", "8", "c", "6">>, <<"c", "6", "b", "8">> }

\* move n of the long game: g1f3 g8f6 f3g1 f6g8, again and again
ShuffleText(n) ==
    <<<<"f", "6", "g", "8">>, <<"g", "1", "f", "3">>, <<"g", "8", "f", "6">>,
      <<"f", "3", "g", "1">>>>[(n % 4) + 1]

\* the board after the usermove commands first..final of the long game
RECURSIVE ShuffledFrom(_, _, _)
ShuffledFrom(b, first, final) ==
    LET half == (first + final) \div 2
        Rest(x) == ShuffledFrom(x, half + 1, final)
    IN IF first > final THEN b
       ELSE IF first = final
       THEN [Move_Make(b, Move_Parse(ShuffleText(first), b)).board EXCEPT !.ply = 0]
       ELSE Once(ShuffledFrom(b, first, half), Rest)

Shuffled(b, n) == ShuffledFrom(b, 1, n)

\* the result of a game: the position is set up, moves are played in force mode,
\* from the start or after MaxShuffle plies of a game played before, and the
\* result is asked for
InitResult ==
    /\ \E n \in {0, MaxShuffle} :
          board = Shuffled(Board_ParseFromFEN(FenKnights,
                      [ChessBoard EXCEPT !.HashTable = HashTable_Init(@, 64)]).board, n)
    /\ last = Last("fen", NOMOVE, 0, ChessBoard, FALSE, ChessBoard, FenKnights)
    /\ info = SearchInfo
    /\ stored = <<>>
    /\ search = Idle
    /\ gui = GUI

DoResultUserMove(text) ==
    /\ last.n < MaxResultOps
    /\ UserMoved(text, Move_Parse(text, board))
    /\ UNCHANGED <<info, stored, search, gui>>

\* the board and the record left by a checkresult that returned r
Checked(r) ==
    /\ board' = r.board
    /\ last' = [Last("checkresult", NOMOVE, r.ret, board, FALSE, board, <<>>)
                    EXCEPT !.args = [text |-> r.text], !.n = last.n]

DoCheckResult ==
    /\ Checked(checkresult(board))
    /\ UNCHANGED <<info, stored, search, gui>>

NextResult ==
    \/ \E text \in ResultMoveTexts : DoResultUserMove(text)
    \/ DoCheckResult

SpecResult == InitResult /\ [][NextResult]_vars

\* the fool's mate, and two other first moves
FoolsMate == << <<"f", "2", "f", "3">>, <<"e", "7", "e", "5">>, <<"g", "2", "g", "4">>,
                <<"d", "8", "h", "4">> >>
MateMoveTexts ==
    {FoolsMate[k] : k \in DOMAIN FoolsMate}
        \cup { <<"e", "2", "e", "4">>, <<"g", "8", "f", "6">>, <<"d", "8", "h", "5">> }

\* a game from the starting position: moves are played in force mode and the
\* result is asked for
InitMate ==
    /\ board = Board_ParseFromFEN(CHESS_START_FEN,
                    [ChessBoard EXCEPT !.HashTable = HashTable_Init(@, 64)]).board
    /\ last = Last("fen", NOMOVE, 0, ChessBoard, FALSE, ChessBoard, CHESS_START_FEN)
    /\ info = SearchInfo
    /\ stored = <<>>
    /\ search = Idle
    /\ gui = GUI

DoMateUserMove(text) ==
    /\ last.n < MaxMateOps
    /\ UserMoved(text, Move_Parse(text, board))
    /\ UNCHANGED <<info, stored, search, gui>>

NextMate ==
    \/ \E text \in MateMoveTexts : DoMateUserMove(text)
    \/ DoCheckResult

SpecMate == InitMate /\ [][NextMate]_vars

\* r3k2r/p1ppqpb1/bn2pnp1/3PN3/1p2P3/2N2Q1p/PPPBBPPP/R3K2R w KQkq - 0 1
FenKiwipete ==
    <<"r", "3", "k", "2", "r", "/", "p", "1", "p", "p", "q", "p", "b", "1", "/", "b", "n", "2", "p", "n", "p", "1", "/", "3", "P", "N", "3", "/", "1", "p", "2", "P", "3", "/", "2", "N", "2", "Q", "1", "p", "/", "P", "P", "P", "B", "B", "P", "P", "P", "/", "R", "3", "K", "2", "R", " ", "w", " ", "K", "Q", "k", "q", " ", "-", " ", "0", " ", "1">>

\* 8/2p5/3p4/KP5r/1R3p1k/8/4P1P1/8 w - - 0 1
FenRookEnding ==
    <<"8", "/", "2", "p", "5", "/", "3", "p", "4", "/", "K", "P", "5", "r", "/", "1", "R", "3", "p", "1", "k", "/", "8", "/", "4", "P", "1", "P", "1", "/", "8", " ", "w", " ", "-", " ", "-", " ", "0", " ", "1">>

\* 4k3/2q3pp/8/8/8/1B6/P4P2/2B1K2R b K - 0 1
FenBishops ==
    <<"4", "k", "3", "/", "2", "q", "3", "p", "p", "/", "8", "/", "8", "/", "8", "/", "1", "B", "6", "/", "P", "4", "P", "2", "/", "2", "B", "1", "K", "2", "R", " ", "b", " ", "K", " ", "-", " ", "0", " ", "1">>

EvalFenTexts ==
    {CHESS_START_FEN, FenKiwipete, FenRookEnding, FenBishops, FenCastling, FenPawns,
     FenEnPassant, FenKnights}

\* the mirror test: positions are set up, a move is played, and the position is
\* evaluated, mirrored and evaluated again
InitEval ==
    /\ \E fen \in EvalFenTexts :
          /\ board = Board_ParseFromFEN(fen,
                        [ChessBoard EXCEPT !.HashTable = HashTable_Init(@, 64)]).board
          /\ last = Last("fen", NOMOVE, 0, ChessBoard, FALSE, ChessBoard, fen)
    /\ info = SearchInfo
    /\ stored = <<>>
    /\ search = Idle
    /\ gui = GUI

DoEvalMakeMove ==
    /\ last.n < MaxEvalOps
    /\ \E entry \in Range(Move_GenerateAll(board)) :
          LET made == Move_Make(board, entry.move)
          IN /\ board' = [made.board EXCEPT !.ply = 0]
             /\ last' = Called(Last("make", entry.move, made.ret, board, FALSE, board, <<>>))
    /\ UNCHANGED <<info, stored, search, gui>>

\* one round of MirrorEvalTest: ev1 is the evaluation before Board_Mirror, the
\* value recorded as returned is ev2, the evaluation after it
DoMirrorEval ==
    /\ \E mirrored \in {Board_Mirror(board)} :
          /\ board' = mirrored
          /\ last' = [Last("mirror", NOMOVE, Evaluate_Position(mirrored), board, FALSE,
                           board, <<>>)
                        EXCEPT !.args = [ev1 |-> Evaluate_Position(board)], !.n = last.n]
    /\ UNCHANGED <<info, stored, search, gui>>

NextEval ==
    \/ DoEvalMakeMove
    \/ DoMirrorEval

SpecEval == InitEval /\ [][NextEval]_vars

\* r3k2r/8/8/8/8/8/8/R3K2R w KQkq - 0 1
FenRooksWhite ==
    <<"r", "3", "k", "2", "r", "/", "8", "/", "8", "/", "8", "/", "8", "/", "8", "/", "8", "/", "R", "3", "K", "2", "R", " ", "w", " ", "K", "Q", "k", "q", " ", "-", " ", "0", " ", "1">>

\* r3k2r/8/8/8/8/8/8/R3K2R b KQkq - 0 1
FenRooksBlack ==
    <<"r", "3", "k", "2", "r", "/", "8", "/", "8", "/", "8", "/", "8", "/", "8", "/", "8", "/", "R", "3", "K", "2", "R", " ", "b", " ", "K", "Q", "k", "q", " ", "-", " ", "0", " ", "1">>

\* r3k2r/8/8/8/8/8/8/R3K2R w Kq - 0 1
FenRooksPartial ==
    <<"r", "3", "k", "2", "r", "/", "8", "/", "8", "/", "8", "/", "8", "/", "8", "/", "8", "/", "R", "3", "K", "2", "R", " ", "w", " ", "K", "q", " ", "-", " ", "0", " ", "1">>

CastleFenTexts == {CHESS_START_FEN, FenRooksWhite, FenRooksBlack, FenRooksPartial}

\* the squares b4 to g4: a rook there attacks a square of either back rank
CastleRookSquares == {FILE_RANK_TO_SQUARE(file, 3) : file \in 1..6}

\* a position with castling rights, with or without a rook of the side not to move
\* on the fourth rank
InitCastle ==
    /\ \E fen \in CastleFenTexts, sq \in CastleRookSquares \cup {NO_SQ} :
          LET WithRook(b) ==
                  IF sq = NO_SQ THEN b
                  ELSE AddPiece(sq, b, IF b.side = COLOR_TYPE_WHITE
                                       THEN PIECE_TYPE_BLACK_ROOK ELSE PIECE_TYPE_WHITE_ROOK)
          IN /\ board = Once(Board_ParseFromFEN(fen,
                                [ChessBoard EXCEPT !.HashTable = HashTable_Init(@, 64)]).board,
                             WithRook)
             /\ last = Last("fen", NOMOVE, 0, ChessBoard, FALSE, ChessBoard, fen)
    /\ info = SearchInfo
    /\ stored = <<>>
    /\ search = Idle
    /\ gui = GUI

\* Move_Make on a move of Move_GenerateAll, as a front end playing a game does
DoCastleMakeMove ==
    /\ last.n < MaxCastleOps
    /\ \E entry \in Range(Move_GenerateAll(board)) : Made(entry.move, Move_Make(board, entry.move))
    /\ UNCHANGED <<info, stored, search, gui>>

NextCastle == DoCastleMakeMove

SpecCastle == InitCastle /\ [][NextCastle]_vars

\* games on positions whose castling rights match the placement of kings and rooks:
\* moves are made and taken back
InitRights ==
    /\ \E fen \in CastleFenTexts :
          /\ board = Board_ParseFromFEN(fen,
                        [ChessBoard EXCEPT !.HashTable = HashTable_Init(@, 64)]).board
          /\ last = Last("fen", NOMOVE, 0, ChessBoard, FALSE, ChessBoard, fen)
    /\ info = SearchInfo
    /\ stored = <<>>
    /\ search = Idle
    /\ gui = GUI

NextRights ==
    \/ DoMakeMove
    \/ DoTakeMove

SpecRights == InitRights /\ [][NextRights]_vars

\* 4k3/P6p/8/8/1p5P/2P5/P7/4K3 w - - 57 30
FenPawnsClocked ==
    <<"4", "k", "3", "/", "P", "6", "p", "/", "8", "/", "8", "/", "1", "p", "5", "P", "/", "2", "P", "5", "/", "P", "7", "/", "4", "K", "3", " ", "w", " ", "-", " ", "-", " ", "5", "7", " ", "3", "0">>

\* 1n2k1n1/8/8/8/8/8/8/1N2K1N1 b - - 99 80
FenKnightsClocked ==
    <<"1", "n", "2", "k", "1", "n", "1", "/", "8", "/", "8", "/", "8", "/", "8", "/", "8", "/", "8", "/", "1", "N", "2", "K", "1", "N", "1", " ", "b", " ", "-", " ", "-", " ", "9", "9", " ", "8", "0">>

ClockedFenTexts == {FenPawnsClocked, FenKnightsClocked}

\* the executor on positions whose text carries a halfmove clock: moves and null
\* moves are made and taken back, and a position is set up anew
InitClock ==
    /\ \E fen \in ClockedFenTexts :
          /\ board = Board_ParseFromFEN(fen,
                        [ChessBoard EXCEPT !.HashTable = HashTable_Init(@, 64)]).board
          /\ last = Last("fen", NOMOVE, 0, ChessBoard, FALSE, ChessBoard, fen)
    /\ info = SearchInfo
    /\ stored = <<>>
    /\ search = Idle
    /\ gui = GUI

DoClockSetBoard(fen) ==
    /\ last.n < MaxOps
    /\ Parsed(fen, Board_ParseFromFEN(fen, board))
    /\ UNCHANGED <<info, stored, search, gui>>

NextClock ==
    \/ DoMakeMove
    \/ DoTakeMove
    \/ DoMakeNullMove
    \/ DoTakeNullMove
    \/ \E fen \in ClockedFenTexts : DoClockSetBoard(fen)

SpecClock == InitClock /\ [][NextClock]_vars

\* the SDL front end: the games played by clicks on the board and on the promotion
\* dialog, the keys N and M, and the timer that GUI_Run updates after the events

\* the N key of GUI_Run: a new game, the timers reset by ResetTimers
GuiNewGame(g, b) ==
    [gui |-> [g EXCEPT !.selectedSquare = NO_SQ, !.gameOver = 0, !.gameOverMessage = "",
                       !.promotionPending = 0, !.promotionFromSq = NO_SQ,
                       !.promotionToSq = NO_SQ, !.timerActive = 1, !.timerPaused = 0],
     board |-> Board_ParseFromFEN(CHESS_START_FEN, b).board]

\* the square a move text names: its first two characters, or its next two
TextSquare(text, at) ==
    FILE_RANK_TO_SQUARE(CharMinus(text[at], FileChars), CharMinus(text[at + 1], RankChars))

\* the value x with its arrays evaluated, as a state holds it between two handlers
Settled(x) == CHOOSE y \in {x} : y = x

\* the clicks first..final of a game: two for each move, on the square the piece
\* stands on, then on the square it goes to
RECURSIVE GuiPlayedFrom(_, _, _, _)
GuiPlayedFrom(state, texts, first, final) ==
    LET half == (first + final) \div 2
        Rest(x) == GuiPlayedFrom(x, texts, half + 1, final)
    IN IF first > final THEN state
       ELSE IF first = final
       THEN Settled(GUI_HandleMouseClick(state.gui, state.board,
                        TextSquare(texts[(first + 1) \div 2], 3 - (2 * (first % 2))),
                        "NUL"))
       ELSE Once(GuiPlayedFrom(state, texts, first, half), Rest)

\* GUI_Run before its loop: GUI_Init and the starting position
GuiStarted ==
    [gui |-> GUI,
     board |-> Board_ParseFromFEN(CHESS_START_FEN,
                   [ChessBoard EXCEPT !.HashTable = HashTable_Init(@, 64)]).board]

\* a2a4 b7b5 a4b5 a7a6 b5a6 c8b7 a6b7 b8c6: a white pawn reaches b7
GuiOpening ==
    <<<<"a", "2", "a", "4">>, <<"b", "7", "b", "5">>, <<"a", "4", "b", "5">>,
      <<"a", "7", "a", "6">>, <<"b", "5", "a", "6">>, <<"c", "8", "b", "7">>,
      <<"a", "6", "b", "7">>, <<"b", "8", "c", "6">>>>

\* the squares the clicks of the model fall on (b7, a8, b8, e8, or off the board) and
\* what they are on the promotion dialog (a piece, or none)
GuiClickSquares == {82, 91, 92, 95, NO_SQ}
PromotionChoices == {"q", "r", "b", "n"}

\* a game in the GUI, taken up after the eight plies of the opening
InitGui ==
    /\ \E state \in {GuiPlayedFrom(GuiStarted, GuiOpening, 1, 2 * Len(GuiOpening))} :
          /\ board = state.board
          /\ gui = state.gui
    /\ last = Last("click", NOMOVE, 0, ChessBoard, FALSE, ChessBoard, <<>>)
    /\ info = SearchInfo
    /\ stored = <<>>
    /\ search = Idle

\* the board, the GUI and the record left by a handler of GUI_Run that returned r
GuiHandled(op, args, r) ==
    /\ board' = r.board
    /\ gui' = r.gui
    /\ last' = [Called(Last(op, NOMOVE, 0, board, FALSE, board, <<>>)) EXCEPT !.args = args]
    /\ UNCHANGED <<info, stored, search>>

\* SDL_MOUSEBUTTONDOWN
DoGuiClick(clickedSquare, choice) ==
    /\ last.n < MaxGuiOps
    /\ GuiHandled("click", <<clickedSquare, choice>>,
                  GUI_HandleMouseClick(gui, board, clickedSquare, choice))

\* SDLK_n
DoGuiNewGame ==
    /\ last.n < MaxGuiOps
    /\ GuiHandled("new", <<>>, GuiNewGame(gui, board))

\* SDLK_m
DoGuiSwitchMode ==
    /\ last.n < MaxGuiOps
    /\ GuiHandled("mode", <<>>, [gui |-> GuiSwitchMode(gui), board |-> board])

\* UpdateTimer, after the events of a round of the loop
DoGuiUpdateTimer(ranOut) ==
    /\ last.n < MaxGuiOps
    /\ GuiHandled("timer", <<ranOut>>, [gui |-> UpdateTimer(gui, board, ranOut), board |-> board])

NextGui ==
    \/ \E clickedSquare \in GuiClickSquares, choice \in PromotionChoices \cup {"NUL"} :
          DoGuiClick(clickedSquare, choice)
    \/ DoGuiNewGame
    \/ DoGuiSwitchMode
    \/ \E ranOut \in BOOLEAN : DoGuiUpdateTimer(ranOut)

SpecGui == InitGui /\ [][NextGui]_vars

\* the squares of the two knights White moves in the long game of the GUI
WanderA ==
    <<<<"g", "1">>, <<"h", "3">>, <<"g", "5">>, <<"f", "3">>, <<"h", "4">>, <<"f", "5">>,
      <<"g", "3">>, <<"h", "5">>>>
WanderB ==
    <<<<"b", "1">>, <<"a", "3">>, <<"c", "4">>, <<"a", "5">>, <<"b", "3">>, <<"c", "5">>,
      <<"a", "4">>>>

\* move n of the long game of the GUI: Black plays g8f6 and f6g8 in turn; White takes
\* one knight along its squares, forth and back, and after seven such moves the other
\* knight one square on, so that no position comes twice
WanderMove(n) ==
    LET k == (((n + 1) \div 2) - 1) \div 8
        r == (((n + 1) \div 2) - 1) % 8
    IN IF n % 2 = 0
       THEN IF (n \div 2) % 2 = 1 THEN <<"g", "8", "f", "6">> ELSE <<"f", "6", "g", "8">>
       ELSE IF r = 7 THEN WanderB[k + 1] \o WanderB[k + 2]
       ELSE IF k % 2 = 0 THEN WanderA[r + 1] \o WanderA[r + 2]
       ELSE WanderA[8 - r] \o WanderA[7 - r]

WanderGame(n) == [i \in 1..n |-> WanderMove(i)]

\* the plies of the long game played before the clicks of the model: one short of
\* CHESS_MAX_SEARCH_DEPTH, and one short of a hundred
GuiLongPlies == {CHESS_MAX_SEARCH_DEPTH - 1, 99}

\* f3, g1, h3, g5, f6, g8: the squares of the next moves of the long game
GuiLongSquares == {46, 27, 48, 67, 76, 97}

\* a long game in the GUI, without a capture, a pawn move or a new game
InitGuiLong ==
    /\ \E n \in GuiLongPlies :
          \E state \in {GuiPlayedFrom(GuiStarted, WanderGame(n), 1, 2 * n)} :
             /\ board = state.board
             /\ gui = state.gui
    /\ last = Last("click", NOMOVE, 0, ChessBoard, FALSE, ChessBoard, <<>>)
    /\ info = SearchInfo
    /\ stored = <<>>
    /\ search = Idle

NextGuiLong ==
    \/ \E clickedSquare \in GuiLongSquares : DoGuiClick(clickedSquare, "NUL")
    \/ DoGuiNewGame
    \/ DoGuiSwitchMode
    \/ \E ranOut \in BOOLEAN : DoGuiUpdateTimer(ranOut)

SpecGuiLong == InitGuiLong /\ [][NextGuiLong]_vars

\* c2c4 d7d5 g1f3 d5c4 b1c3 g8f6 e2e3 d8d2 f3d2 b8a6 d2c4 b7b5 c3b5 f6e4 b5c7 a6c7
\* d1d3: a line of the search of the starting position to depth 16
OrderLine ==
    <<<<"c", "2", "c", "4">>, <<"d", "7", "d", "5">>, <<"g", "1", "f", "3">>,
      <<"d", "5", "c", "4">>, <<"b", "1", "c", "3">>, <<"g", "8", "f", "6">>,
      <<"e", "2", "e", "3">>, <<"d", "8", "d", "2">>, <<"f", "3", "d", "2">>,
      <<"b", "8", "a", "6">>, <<"d", "2", "c", "4">>, <<"b", "7", "b", "5">>,
      <<"c", "3", "b", "5">>, <<"f", "6", "e", "4">>, <<"b", "5", "c", "7">>,
      <<"a", "6", "c", "7">>, <<"d", "1", "d", "3">>>>

\* the board of the node after the moves first..final of the line
RECURSIVE OrderLineFrom(_, _, _)
OrderLineFrom(b, first, final) ==
    LET half == (first + final) \div 2
        Rest(x) == OrderLineFrom(x, half + 1, final)
        Played(move) == Settled(Move_Make(b, move).board)
    IN IF first > final THEN b
       ELSE IF first = final
       THEN Once(Settled(Move_Parse(OrderLine[first], b)), Played)
       ELSE Once(OrderLineFrom(b, first, half), Rest)

\* history scores a search holds: the greatest ones of the searches of the starting
\* position to the depths 6, 8 and 10, and the one in the cell of the black knight
\* and f6 when the search to depth 16 stands at the end of the line
HistoryReached == {0, 130, 904, 11804, 1000152}

\* a node of a search under way, at ply 17: the history score of the moves of a
\* black knight to f6 is one a search holds, and the search goes on writing the
\* killers and the history
InitOrder ==
    /\ \E score \in HistoryReached :
          board = [OrderLineFrom(Board_ParseFromFEN(CHESS_START_FEN,
                                     [ChessBoard EXCEPT !.HashTable = HashTable_Init(@, 64)]).board,
                                 1, Len(OrderLine))
                     EXCEPT !.searchHistory = Put(@, <<PIECE_TYPE_BLACK_KNIGHT, 76>>, score)]
    /\ last = Last("fen", NOMOVE, 0, ChessBoard, FALSE, ChessBoard, CHESS_START_FEN)
    /\ info = SearchInfo
    /\ stored = <<>>
    /\ search = Idle
    /\ gui = GUI

\* AlphaBeta lines 273-276: a move without MFLAGCAP that reached beta
DoOrderKiller(move) ==
    /\ last.n < MaxOrderOps
    /\ ~MFLAGCAP_Set(move)
    /\ board' = AddKiller(board, move)
    /\ last' = Called(Last("killer", move, 0, board, FALSE, board, <<>>))
    /\ UNCHANGED <<info, stored, search, gui>>

\* AlphaBeta lines 284-286: a move without MFLAGCAP that raised alpha at a depth
DoOrderHistory(move, depth) ==
    /\ last.n < MaxOrderOps
    /\ ~MFLAGCAP_Set(move)
    /\ board' = AddHistory(board, move, depth)
    /\ last' = Called(Last("history", move, 0, board, FALSE, board, <<>>))
    /\ UNCHANGED <<info, stored, search, gui>>

NextOrder ==
    \/ \E entry \in Range(Move_GenerateAll(board)) : DoOrderKiller(entry.move)
    \/ \E entry \in Range(Move_GenerateAll(board)), depth \in {1, CHESS_MAX_SEARCH_DEPTH} :
          DoOrderHistory(entry.move, depth)

SpecOrder == InitOrder /\ [][NextOrder]_vars

\* the node count of the console's perft command, from the starting position
InitPerft ==
    /\ board = Board_ParseFromFEN(CHESS_START_FEN,
                    [ChessBoard EXCEPT !.HashTable = HashTable_Init(@, 64)]).board
    /\ last = Last("fen", NOMOVE, 0, ChessBoard, FALSE, ChessBoard, CHESS_START_FEN)
    /\ info = SearchInfo
    /\ stored = <<>>
    /\ search = Idle
    /\ gui = GUI

\* Search_PerftTest(depth, board) is entered: leafNodes = 0 and the moves generated.
\* The calls of Perft in flight are the frames of search.stack, the innermost last;
\* a call Perft(1, board) is run in one step.
DoPerftStart(depth) ==
    /\ last.n < MaxPerftOps
    /\ search.pc = "idle"
    /\ search' = [Idle EXCEPT !.pc = "perft", !.op = "perft",
                              !.stack = <<[depth |-> depth, list |-> Move_GenerateAll(board),
                                           MoveNum |-> 0]>>,
                              !.call = [depth |-> depth, leafNodes |-> 0],
                              !.pre = board]
    /\ last' = [last EXCEPT !.n = @ + 1]
    /\ UNCHANGED <<board, info, stored, gui>>

\* one round of the loop of the innermost call: Move_Make, and for an accepted move
\* the leaf counted, Perft(1) run, or Perft(depth - 1) entered
DoPerftMove ==
    /\ search.pc = "perft"
    /\ LET top == Len(search.stack)
           frame == search.stack[top]
           Next_(b, leafNodes) ==
               /\ board' = b
               /\ search' = [search EXCEPT !.stack[top].MoveNum = @ + 1,
                                           !.call.leafNodes = leafNodes]
       IN /\ frame.MoveNum < Len(frame.list)
          /\ \E made \in {Move_Make(board, frame.list[frame.MoveNum + 1].move)} :
                IF made.ret = BOOL_TYPE_FALSE
                THEN Next_(made.board, search.call.leafNodes)
                ELSE IF frame.depth - 1 <= 1
                THEN \E sub \in {Perft(frame.depth - 1, made.board, search.call.leafNodes)} :
                        Next_(Move_Take(sub.board), sub.leafNodes)
                ELSE /\ board' = made.board
                     /\ search' = [search EXCEPT !.stack =
                                      Append(@, [depth |-> frame.depth - 1,
                                                 list |-> Move_GenerateAll(made.board),
                                                 MoveNum |-> 0])]
    /\ UNCHANGED <<info, last, stored, gui>>

\* the loop of an inner call is over: Perft returns and its caller takes the move back
DoPerftReturn ==
    /\ search.pc = "perft"
    /\ LET top == Len(search.stack)
       IN /\ top > 1
          /\ search.stack[top].MoveNum >= Len(search.stack[top].list)
          /\ board' = Move_Take(board)
          /\ search' = [search EXCEPT !.stack = [k \in 1..(top - 1) |->
                                        IF k = top - 1
                                        THEN [search.stack[k] EXCEPT !.MoveNum = @ + 1]
                                        ELSE search.stack[k]]]
    /\ UNCHANGED <<info, last, stored, gui>>

\* the loop of Search_PerftTest is over: the count is printed
DoPerftDone ==
    /\ search.pc = "perft"
    /\ Len(search.stack) = 1
    /\ search.stack[1].MoveNum >= Len(search.stack[1].list)
    /\ search' = Idle
    /\ last' = [Last("perft", NOMOVE, search.call.leafNodes, search.pre, FALSE, search.pre,
                     <<>>)
                  EXCEPT !.args = [depth |-> search.call.depth], !.n = last.n]
    /\ UNCHANGED <<board, info, stored, gui>>

NextPerft ==
    \/ \E depth \in 1..MaxPerftDepth : DoPerftStart(depth)
    \/ DoPerftMove
    \/ DoPerftReturn
    \/ DoPerftDone

SpecPerft == InitPerft /\ [][NextPerft]_vars

\* the squares the pieces of a kind are put on, first to last: their squares in the
\* starting position, and a square of the third or sixth rank after those
PlacementSquares(piece) ==
    CASE piece = PIECE_TYPE_WHITE_PAWN -> <<FILE_RANK_TO_SQUARE(0, 1)>>
      [] piece = PIECE_TYPE_BLACK_PAWN -> <<FILE_RANK_TO_SQUARE(0, 6)>>
      [] piece = PIECE_TYPE_WHITE_ROOK -> <<A1>>
      [] piece = PIECE_TYPE_BLACK_ROOK -> <<A8>>
      [] piece = PIECE_TYPE_WHITE_QUEEN -> <<D1>>
      [] piece = PIECE_TYPE_BLACK_QUEEN -> <<D8>>
      [] piece = PIECE_TYPE_WHITE_KNIGHT -> <<B1, G1, FILE_RANK_TO_SQUARE(1, 2)>>
      [] piece = PIECE_TYPE_BLACK_KNIGHT -> <<B8, G8, FILE_RANK_TO_SQUARE(1, 5)>>
      [] piece = PIECE_TYPE_WHITE_BISHOP -> <<C1, F1, FILE_RANK_TO_SQUARE(2, 2)>>
      [] piece = PIECE_TYPE_BLACK_BISHOP -> <<C8, F8, FILE_RANK_TO_SQUARE(2, 5)>>

\* b with count pieces of a kind added by AddPiece
RECURSIVE Placed(_, _, _)
Placed(b, piece, count) ==
    LET Added(x) == AddPiece(PlacementSquares(piece)[count], x, piece)
    IN IF count = 0 THEN b ELSE Once(Placed(b, piece, count - 1), Added)

\* b with counts[piece] pieces of every kind but the kings added
RECURSIVE PlacedAll(_, _, _)
PlacedAll(b, counts, piece) ==
    LET Rest(x) == PlacedAll(x, counts, piece + 1)
    IN IF piece > PIECE_TYPE_BLACK_QUEEN THEN b
       ELSE IF piece = PIECE_TYPE_WHITE_KING THEN PlacedAll(b, counts, piece + 1)
       ELSE Once(Placed(b, piece, counts[piece]), Rest)

HeavyPieces ==
    {PIECE_TYPE_WHITE_PAWN, PIECE_TYPE_BLACK_PAWN, PIECE_TYPE_WHITE_ROOK,
     PIECE_TYPE_BLACK_ROOK, PIECE_TYPE_WHITE_QUEEN, PIECE_TYPE_BLACK_QUEEN}
MinorPieces ==
    {PIECE_TYPE_WHITE_KNIGHT, PIECE_TYPE_BLACK_KNIGHT, PIECE_TYPE_WHITE_BISHOP,
     PIECE_TYPE_BLACK_BISHOP}

\* the material of a game: the two kings, up to MaxMinors knights and as many
\* bishops a side, and any of a pawn, a rook and a queen a side
InitMaterial ==
    /\ \E heavy \in SUBSET HeavyPieces, minors \in [MinorPieces -> 0..MaxMinors] :
          board = PlacedAll(Board_ParseFromFEN(FenKings,
                                [ChessBoard EXCEPT !.HashTable = HashTable_Init(@, 64)]).board,
                            [piece \in HeavyPieces \cup MinorPieces |->
                                IF piece \in MinorPieces THEN minors[piece]
                                ELSE IF piece \in heavy THEN 1 ELSE 0],
                            PIECE_TYPE_WHITE_PAWN)
    /\ last = Last("fen", NOMOVE, 0, ChessBoard, FALSE, ChessBoard, FenKings)
    /\ info = SearchInfo
    /\ stored = <<>>
    /\ search = Idle
    /\ gui = GUI

\* DrawMaterial is asked about the board, as the game-over handling of the GUI does
DoDrawMaterial ==
    /\ last.op # "material"
    /\ last' = [Last("material", NOMOVE, DrawMaterial(board), board, FALSE, board, <<>>)
                    EXCEPT !.n = last.n]
    /\ UNCHANGED <<board, info, stored, search, gui>>

NextMaterial ==
    \/ DoDrawMaterial
    \/ DoCheckResult

SpecMaterial == InitMaterial /\ [][NextMaterial]_vars

\* HashTable_Init with an allocator that may fail: the engine is set up on a
\* position, the table is allocated again and again with some memory to give, and
\* between the allocations entries are stored and probed
InitAlloc ==
    /\ board = Board_ParseFromFEN(FenPawnEnding,
                    [ChessBoard EXCEPT !.HashTable = HashTable_Init(@, 64)]).board
    /\ last = Last("fen", NOMOVE, 0, ChessBoard, FALSE, ChessBoard, FenPawnEnding)
    /\ info = SearchInfo
    /\ stored = <<>>
    /\ search = Idle
    /\ gui = GUI

\* HashTable_Init(table, MB) is called while avail bytes can be allocated
DoInitStart(MB, avail) ==
    /\ last.n < MaxAllocOps
    /\ search.pc = "idle"
    /\ search' = [Idle EXCEPT !.pc = "alloc", !.op = "init", !.pre = board,
                              !.call = [fn |-> "HashTable_Init", MB |-> MB,
                                        asked |-> MB, avail |-> avail]]
    /\ last' = [last EXCEPT !.n = @ + 1]
    /\ UNCHANGED <<board, info, stored, gui>>

\* one call of HashTable_Init: numEntries is set, the old table freed and the new one
\* allocated; with the table allocated it is cleared and the call returns, otherwise
\* HashTable_Init(table, MB / 2) is called. With MB = 0 that call is the same call
\* again: the recursion goes on for ever or ends the process when the stack is full
DoInitAttempt ==
    /\ search.pc = "alloc"
    /\ LET MB == search.call.MB
           numEntries == HashTable_InitEntries(MB)
       IN IF Malloc(numEntries, search.call.avail)
          THEN /\ board' = [board EXCEPT !.HashTable =
                                HashTable_Clear([@ EXCEPT !.numEntries = numEntries])]
               /\ search' = Idle
               /\ last' = [Last("init", NOMOVE, 0, search.pre, FALSE, search.pre, <<>>)
                             EXCEPT !.n = last.n,
                                    !.args = [MB |-> MB, asked |-> search.call.asked]]
               /\ stored' = <<>>
          ELSE /\ board' = [board EXCEPT !.HashTable.numEntries = numEntries,
                                         !.HashTable.pTable = <<>>]
               /\ \E pc \in (IF MB = 0 THEN {"alloc", "crashed"} ELSE {"alloc"}) :
                     search' = [search EXCEPT !.pc = pc, !.call.MB = MB \div 2]
               /\ UNCHANGED <<last, stored, gui>>
    /\ UNCHANGED <<info, gui>>

DoAllocStoreEntry(depth) ==
    /\ search.pc = "idle"
    /\ DoStoreEntry(50, HFEXACT, depth)

DoAllocProbeEntry(depth) ==
    /\ search.pc = "idle"
    /\ DoProbeEntry(-CHESS_INFINITE, CHESS_INFINITE, depth)

DoAllocMakeMove ==
    /\ search.pc = "idle"
    /\ last.n < MaxAllocOps
    /\ \E entry \in Range(Move_GenerateAll(board)) : Made(entry.move, Move_Make(board, entry.move))
    /\ UNCHANGED <<info, stored, search, gui>>

NextAlloc ==
    \/ \E MB \in AllocSizes, avail \in AvailBytes : DoInitStart(MB, avail)
    \/ DoInitAttempt
    \/ \E depth \in HashDepths : DoAllocStoreEntry(depth)
    \/ \E depth \in HashDepths : DoAllocProbeEntry(depth)
    \/ DoAllocMakeMove

\* a call of HashTable_Init that has begun goes on: nothing else runs beside it
SpecAlloc == InitAlloc /\ [][NextAlloc]_vars /\ WF_vars(DoInitAttempt)

\* a searching front end: the position set up, the table allocated, the protocol
\* chosen, and PvArray[0] holding whatever the memory of the board held
InitSearch ==
    /\ \E fen \in SearchFenTexts, mode \in {MODE_TYPE_UCI, MODE_TYPE_XBOARD},
          junk \in {NOMOVE, MOVE(A1, A1, EMPTY, EMPTY, MFLAGPS)} :
          /\ board = [Board_ParseFromFEN(fen,
                         [ChessBoard EXCEPT !.HashTable = HashTable_Init(@, 64)]).board
                        EXCEPT !.PvArray = Put(<<>>, 0, junk)]
          /\ last = Last("fen", NOMOVE, 0, ChessBoard, FALSE, ChessBoard, fen)
          /\ info = [SearchInfo EXCEPT !.GAME_MODE = mode]
    /\ stored = <<>>
    /\ search = Idle
    /\ gui = GUI

\* the machine the search runs on, and the state a step leaves
Machine ==
    [board |-> board, info |-> info, stack |-> search.stack, call |-> search.call,
     ret |-> search.ret, pc |-> search.pc]

Stepped(m) ==
    /\ board' = m.board
    /\ info' = m.info
    /\ search' = [search EXCEPT !.stack = m.stack, !.call = m.call, !.ret = m.ret,
                                !.pc = m.pc]
    /\ UNCHANGED <<last, stored, gui>>

\* Search_Position (op "search") or Search_GetBestMove (op "bestmove", the call of
\* the GUI) is entered with depth limit depth, the opening book not in use; stopFrom
\* is the node count from which the clock or the input will stop it
DoSearchStart(op, depth, stopFrom) ==
    /\ last.n < MaxSearchOps
    /\ search.pc = "idle"
    /\ SideValid(board.side)
    /\ board' = Search_ClearFor(board)
    /\ info' = Search_ClearForInfo([info EXCEPT !.depth = depth])
    /\ search' = [Idle EXCEPT !.pc = "iterate", !.op = op, !.currentDepth = 1,
                              !.stopFrom = stopFrom,
                              !.pre = board]
    /\ last' = [last EXCEPT !.n = @ + 1]
    /\ UNCHANGED <<stored, gui>>

\* the head of the iterative deepening: the next AlphaBeta from the root, or the end
DoSearchIterate ==
    /\ search.pc = "iterate"
    /\ IF search.currentDepth > info.depth
       THEN /\ search' = [search EXCEPT !.pc = "finish"]
            /\ UNCHANGED <<board, info, last, stored, gui>>
       ELSE Stepped(Call(Machine, "AlphaBeta", -CHESS_INFINITE, CHESS_INFINITE,
                         search.currentDepth, BOOL_TYPE_TRUE))

DoSearchCall ==
    /\ search.pc = "call"
    /\ \E m \in {SearchCall(search.stopFrom, Machine)} : Stepped(m)

DoSearchLoop ==
    /\ search.pc = "loop"
    /\ \E m \in {SearchLoop(Machine)} : Stepped(m)

DoSearchReturn ==
    /\ search.pc = "return"
    /\ search.stack # <<>>
    /\ \E m \in {SearchReturn(Machine)} : Stepped(m)

\* AlphaBeta has returned to the driver: a stopped search leaves the loop, a finished
\* depth calls HashTable_GetPvLine(currentDepth, board), which probes the first move
DoSearchDepthDone ==
    /\ search.pc = "return"
    /\ search.stack = <<>>
    /\ IF info.stopped = BOOL_TYPE_TRUE
       THEN search' = [search EXCEPT !.pc = "finish"]
       ELSE search' = [search EXCEPT !.pc = "pvline",
                                     !.call = [move |-> HashTable_ProbePvMove(board),
                                               count |-> 0]]
    /\ UNCHANGED <<board, info, last, stored, gui>>

\* one round of while(move != NOMOVE && count < depth) in HashTable_GetPvLine: a move
\* that exists is made and the next one probed; otherwise the moves are taken back
\* and the driver takes PvArray[0] as the best move of the depth
DoSearchPvLine ==
    /\ search.pc = "pvline"
    /\ LET move == search.call.move
           count == search.call.count
           Left(pv) ==
               /\ board' = pv.board
               /\ search' = [search EXCEPT !.pc = "iterate",
                                           !.bestMove = pv.board.PvArray[0],
                                           !.currentDepth = @ + 1,
                                           !.pvMoves = pv.count]
       IN IF move # NOMOVE /\ count < search.currentDepth
          THEN \E r \in {MoveExists(board, move)} :
                  IF r.ret = BOOL_TYPE_TRUE
                  THEN \E pv \in {PvLineMade(move, count, r.board)} :
                          /\ board' = pv.board
                          /\ search' = [search EXCEPT
                                            !.call = [move |-> pv.move,
                                                      count |-> pv.count]]
                  ELSE \E pv \in {PvLineLeft(count, r.board)} : Left(pv)
          ELSE \E pv \in {PvLineLeft(count, board)} : Left(pv)
    /\ UNCHANGED <<info, last, stored, gui>>

\* what the end of Search_Position leaves: under UCI the move is only printed;
\* otherwise Move_Make(board, bestMove) is called, which with NOMOVE indexes the piece
\* tables by pieces[0] (OFFBOARD): what that does is not defined by the source; the
\* process ends there (pc "crashed", as the build does), or the call comes back
\* with the board as it was
Search_PositionPlays(b, bestMove, mode) ==
    IF mode = MODE_TYPE_UCI THEN {[board |-> b, pc |-> "idle"]}
    ELSE IF bestMove = NOMOVE
    THEN {[board |-> b, pc |-> "crashed"], [board |-> b, pc |-> "idle"]}
    ELSE {[board |-> Move_Make(b, bestMove).board, pc |-> "idle"]}

\* the end of Search_Position and of Search_GetBestMove: the move is printed, played
\* or returned
DoSearchFinish ==
    /\ search.pc = "finish"
    /\ \E played \in (IF search.op = "search"
                       THEN Search_PositionPlays(board, search.bestMove, info.GAME_MODE)
                       ELSE {[board |-> board, pc |-> "idle"]}) :
          /\ board' = played.board
          /\ search' = [Idle EXCEPT !.pc = played.pc]
    /\ last' = [Last(search.op, search.bestMove, info.stopped, search.pre, FALSE,
                     search.pre, <<>>)
                  EXCEPT !.n = last.n,
                         !.args = [depth |-> info.depth,
                                   completed |-> search.currentDepth - 1,
                                   pvMoves |-> search.pvMoves]]
    /\ UNCHANGED <<info, stored, gui>>

\* the user's move between two searches
DoSearchUserMove(text) ==
    /\ last.n < MaxSearchOps
    /\ search.pc = "idle"
    /\ SideValid(board.side)
    /\ UserMoved(text, Move_Parse(text, board))
    /\ UNCHANGED <<info, stored, search, gui>>

\* the steps of a search in flight
SearchStep ==
    \/ DoSearchIterate
    \/ DoSearchCall
    \/ DoSearchLoop
    \/ DoSearchReturn
    \/ DoSearchDepthDone
    \/ DoSearchPvLine
    \/ DoSearchFinish

NextSearch ==
    \/ \E op \in {"search", "bestmove"}, depth \in SearchDepths, stopFrom \in StopFroms :
          DoSearchStart(op, depth, stopFrom)
    \/ SearchStep
    \/ \E text \in SearchMoveTexts : DoSearchUserMove(text)

SpecSearch == InitSearch /\ [][NextSearch]_vars

\* a search deep enough for null moves: the side to move is in check by a pawn, so
\* that the root is extended by one ply in every iteration
InitDeep ==
    /\ board = Board_ParseFromFEN(FenInCheck,
                    [ChessBoard EXCEPT !.HashTable = HashTable_Init(@, 64)]).board
    /\ last = Last("fen", NOMOVE, 0, ChessBoard, FALSE, ChessBoard, FenInCheck)
    /\ info = SearchInfo
    /\ stored = <<>>
    /\ search = Idle
    /\ gui = GUI

NextDeep ==
    \/ DoSearchStart("bestmove", MaxDeepDepth, NoStop)
    \/ SearchStep

SpecDeep == InitDeep /\ [][NextDeep]_vars

\* 5bk1/p1p1p1p1/P1P1P1P1/8/8/p1p1p1p1/P1P1P1P1/5BK1 w - - 0 1
FenLocked ==
    <<"5", "b", "k", "1", "/", "p", "1", "p", "1", "p", "1", "p", "1", "/", "P", "1", "P", "1", "P", "1", "P", "1", "/", "8", "/", "8", "/", "p", "1", "p", "1", "p", "1", "p", "1", "/", "P", "1", "P", "1", "P", "1", "P", "1", "/", "5", "B", "K", "1", " ", "w", " ", "-", " ", "-", " ", "0", " ", "1">>

\* the search XBoard_Loop starts when no depth was set (info->depth is
\* CHESS_MAX_SEARCH_DEPTH), on a position whose pawns are locked: every line repeats
\* a position within a few plies and the search ends after some thousand nodes
InitLocked ==
    /\ board = Board_ParseFromFEN(FenLocked,
                    [ChessBoard EXCEPT !.HashTable = HashTable_Init(@, 64)]).board
    /\ last = Last("fen", NOMOVE, 0, ChessBoard, FALSE, ChessBoard, FenLocked)
    /\ info = SearchInfo
    /\ stored = <<>>
    /\ search = Idle
    /\ gui = GUI

NextLocked ==
    \/ last.op = "fen" /\ DoSearchStart("search", CHESS_MAX_SEARCH_DEPTH, NoStop)
    \/ SearchStep

SpecLocked == InitLocked /\ [][NextLocked]_vars

\* 6k1/5ppp/8/4p3/3P4/8/PPP5/K7 w - - 0 1
FenLine ==
    <<"6", "k", "1", "/", "5", "p", "p", "p", "/", "8", "/", "4", "p", "3", "/", "3", "P", "4", "/", "8", "/", "P", "P", "P", "5", "/", "K", "7", " ", "w", " ", "-", " ", "-", " ", "0", " ", "1">>

\* the move of a line that repeats no position: in every four plies White pushes a
\* pawn of the files a to c one square, Black's king steps between g8 and h8, White's
\* between a1 and b1, and Black pushes a pawn of the files f to h one square; once
\* White's pawns stand on the seventh rank its king steps instead
LineMove(b) ==
    LET k == b.ply \div 4
        Quiet(from, to) == MOVE(from, to, EMPTY, EMPTY, 0)
        Step(sq1, sq2) ==
            Quiet(b.KingSq[b.side], IF b.KingSq[b.side] = sq1 THEN sq2 ELSE sq1)
    IN IF b.side = COLOR_TYPE_WHITE
       THEN IF b.ply % 4 = 0 /\ k < 15
            THEN Quiet(FILE_RANK_TO_SQUARE(k \div 5, 1 + (k % 5)),
                       FILE_RANK_TO_SQUARE(k \div 5, 2 + (k % 5)))
            ELSE Step(A1, B1)
       ELSE IF b.ply % 4 = 3
            THEN Quiet(FILE_RANK_TO_SQUARE(5 + (k \div 5), 6 - (k % 5)),
                       FILE_RANK_TO_SQUARE(5 + (k \div 5), 5 - (k % 5)))
            ELSE Step(G8, H8)

\* the windows and the depths AlphaBeta is entered with at the end of the line
LineWindows == { <<-CHESS_INFINITE, CHESS_INFINITE>>, <<-50, 50>> }
LineDepths == {1, 2, MaxLineDepth}

\* AlphaBeta deep in a search: its loop has made the moves of a line, one at a ply
\* (DoLineMake), and from CHESS_MAX_SEARCH_DEPTH - MaxLineBack plies on the call of
\* AlphaBeta that follows a move is run to its return (DoLineSearch, the steps of
\* the search, DoLineReturn)
InitLine ==
    /\ board = Board_ParseFromFEN(FenLine,
                    [ChessBoard EXCEPT !.HashTable = HashTable_Init(@, 64)]).board
    /\ last = Last("fen", NOMOVE, 0, ChessBoard, FALSE, ChessBoard, FenLine)
    /\ info = SearchInfo
    /\ stored = <<>>
    /\ search = Idle
    /\ gui = GUI

\* Move_Make(board, list->moves[MoveNum].move) of the move loop, the move being the
\* move of the line
DoLineMake ==
    /\ search.pc = "idle"
    /\ last.op = "fen"
    /\ board.ply < CHESS_MAX_SEARCH_DEPTH - 1
    /\ \E made \in {Move_Make(board, LineMove(board))} :
          /\ \E entry \in Range(Move_GenerateAll(board)) : entry.move = LineMove(board)
          /\ made.ret = BOOL_TYPE_TRUE
          /\ board' = made.board
    /\ UNCHANGED <<info, last, stored, search, gui>>

\* AlphaBeta(alpha, beta, depth, board, info, BOOL_TYPE_TRUE) is called
DoLineSearch(alpha, beta, depth) ==
    /\ search.pc = "idle"
    /\ last.op = "fen"
    /\ board.ply >= CHESS_MAX_SEARCH_DEPTH - MaxLineBack
    /\ search' = [Idle EXCEPT !.pc = "call", !.op = "line", !.stopFrom = NoStop,
                              !.pre = board,
                              !.call = [fn |-> "AlphaBeta", alpha |-> alpha,
                                        beta |-> beta, depth |-> depth,
                                        DoNull |-> BOOL_TYPE_TRUE]]
    /\ UNCHANGED <<board, info, last, stored, gui>>

\* the call has returned to the loop that made it
DoLineReturn ==
    /\ search.pc = "return"
    /\ search.op = "line"
    /\ search.stack = <<>>
    /\ search' = Idle
    /\ last' = [Last("line", NOMOVE, search.ret, search.pre, FALSE, search.pre, <<>>)
                  EXCEPT !.args = search.call]
    /\ UNCHANGED <<board, info, stored, gui>>

NextLine ==
    \/ DoLineMake
    \/ \E window \in LineWindows, depth \in LineDepths :
          DoLineSearch(window[1], window[2], depth)
    \/ DoSearchCall
    \/ DoSearchLoop
    \/ DoSearchReturn
    \/ DoLineReturn

SpecLine == InitLine /\ [][NextLine]_vars

\* 7k/Q7/6K1/8/8/8/8/8 b - - 0 1
FenCornered ==
    <<"7", "k", "/", "Q", "7", "/", "6", "K", "1", "/", "8", "/", "8", "/", "8", "/", "8", "/", "8", " ", "b", " ", "-", " ", "-", " ", "0", " ", "1">>

\* a search that meets mates and stalemates below the root: Black has the one move
\* h8g8, after which White mates in one or stalemates
InitBound ==
    /\ board = Board_ParseFromFEN(FenCornered,
                    [ChessBoard EXCEPT !.HashTable = HashTable_Init(@, 64)]).board
    /\ last = Last("fen", NOMOVE, 0, ChessBoard, FALSE, ChessBoard, FenCornered)
    /\ info = SearchInfo
    /\ stored = <<>>
    /\ search = Idle
    /\ gui = GUI

NextBound ==
    \/ last.op = "fen" /\ DoSearchStart("bestmove", MaxBoundDepth, NoStop)
    \/ SearchStep

SpecBound == InitBound /\ [][NextBound]_vars

\* the searches of the GUI: Search_GetBestMove on a position with captures and a
\* promotion ahead, to a small depth and not stopped, stopped at its first poll, or
\* to a larger depth and stopped by the poll after 2048 nodes, deep in the tree
InitStop ==
    /\ board = Board_ParseFromFEN(FenPawns,
                    [ChessBoard EXCEPT !.HashTable = HashTable_Init(@, 64)]).board
    /\ last = Last("fen", NOMOVE, 0, ChessBoard, FALSE, ChessBoard, FenPawns)
    /\ info = SearchInfo
    /\ stored = <<>>
    /\ search = Idle
    /\ gui = GUI

StopRuns == {<<MaxDepth, NoStop>>, <<MaxDepth, 0>>, <<MaxStopDepth, 2048>>}

NextStop ==
    \/ \E run \in StopRuns : DoSearchStart("bestmove", run[1], run[2])
    \/ SearchStep

SpecStop == InitStop /\ [][NextStop]_vars

-----------------------------------------------------------------------------
(* Properties of the castling rights, checked under SpecRights *)

\* the rights, with the squares the king and the rook of each start on
CastleRights ==
    {[perm |-> CASTLE_TYPE_WKCA, king |-> PIECE_TYPE_WHITE_KING, kingSq |-> E1,
      rook |-> PIECE_TYPE_WHITE_ROOK, rookSq |-> H1],
     [perm |-> CASTLE_TYPE_WQCA, king |-> PIECE_TYPE_WHITE_KING, kingSq |-> E1,
      rook |-> PIECE_TYPE_WHITE_ROOK, rookSq |-> A1],
     [perm |-> CASTLE_TYPE_BKCA, king |-> PIECE_TYPE_BLACK_KING, kingSq |-> E8,
      rook |-> PIECE_TYPE_BLACK_ROOK, rookSq |-> H8],
     [perm |-> CASTLE_TYPE_BQCA, king |-> PIECE_TYPE_BLACK_KING, kingSq |-> E8,
      rook |-> PIECE_TYPE_BLACK_ROOK, rookSq |-> A8]}

\* every right that is set in b has its king and its rook on their original squares
RightsMatchPlacement(b) ==
    \A right \in CastleRights :
        HasFlag(b.castlePerm, right.perm)
            => b.pieces[right.kingSq] = right.king /\ b.pieces[right.rookSq] = right.rook

\* C35: from a position whose castling rights match its placement, after any
\* sequence of Move_Make and Move_Take a right that is set has its king and its rook
\* on their original squares; a Move_Make sets no right that was clear, and a
\* Move_Take leaves exactly the rights that were set before the move it undoes.
C35_RightsMatch ==
    /\ RightsMatchPlacement(board)
    /\ last.op = "make" => BitAnd(board.castlePerm, last.pre.castlePerm) = board.castlePerm
    /\ last.op = "take" =>
          /\ board.castlePerm = History(last.pre, last.pre.hisPly - 1).castlePerm
          /\ last.made => board.castlePerm = last.orig.castlePerm

\* a rook was captured on its original square by a rook leaving its own, which cost
\* each side a right, and the capture was taken back with all four rights restored
C35_Witness ==
    /\ last.op = "take"
    /\ last.made
    /\ MOVE_GET_CAPTURED(last.move) = PIECE_TYPE_BLACK_ROOK
    /\ MOVE_GET_FROM_SQUARE(last.move) = A1
    /\ MOVE_GET_TO_SQUARE(last.move) = A8
    /\ last.pre.castlePerm = CASTLE_TYPE_WKCA + CASTLE_TYPE_BKCA
    /\ board.castlePerm = 15

-----------------------------------------------------------------------------
(* Properties of the fifty-move counter, checked under SpecClock *)

\* C36: in every state reached from Board_ParseFromFEN by Move_Make, Move_Take,
\* MakeNullMove and TakeNullMove, 0 <= fiftyMove <= hisPly, and every index the
\* scan of IsRepetition reads lies in 0..hisPly - 2, within the history array.
C36_ClockWithinHistory ==
    /\ 0 <= board.fiftyMove
    /\ board.fiftyMove <= board.hisPly
    /\ \A index \in RepetitionScan(board) :
          index >= 0 /\ index <= board.hisPly - 2 /\ index < CHESS_MAX_GAME_MOVES

\* two moves that are no pawn moves and no captures were made on a position whose
\* text gave a halfmove clock other than 0: the scan reads the first history entry
C36_Witness ==
    /\ last.op = "make"
    /\ last.ret = BOOL_TYPE_TRUE
    /\ board.hisPly = 2
    /\ board.fiftyMove = 2
    /\ RepetitionScan(board) = {0}

-----------------------------------------------------------------------------
(* Properties of a stopped search, checked under SpecStop *)

\* what a search leaves for later nodes: the transposition table, the killer moves
\* and the history scores
SearchWrites(b) == <<b.HashTable.pTable, b.searchKillers, b.searchHistory>>

\* a search is in flight and its stop flag is set
StopFlagSet == search.pc # "idle" /\ info.stopped = BOOL_TYPE_TRUE

\* C33: once the stop flag is set during a search, no step of the rest of that
\* search writes a transposition entry, a killer move or a history score, the flag
\* stays set, and every frame to which a call returns takes its move back and
\* returns 0 in its turn, whatever score the call returned.
C33_StoppedWritesNothing ==
    [][StopFlagSet =>
          /\ SearchWrites(board') = SearchWrites(board)
          /\ info'.stopped = BOOL_TYPE_TRUE
          /\ (search.pc = "return" /\ search.stack # <<>>)
                => /\ search'.pc = "return"
                   /\ search'.ret = 0
                   /\ search'.stack = SubSeq(search.stack, 1, Len(search.stack) - 1)]_vars

\* the flag was set deep in the tree, after entries, killers and history scores were
\* written, and a frame below the root has a call returned to it with a score that
\* would otherwise count
C33_Witness ==
    /\ StopFlagSet
    /\ search.pc = "return"
    /\ Len(search.stack) >= 2
    /\ search.ret # 0
    /\ DOMAIN board.HashTable.pTable # {}
    /\ DOMAIN board.searchKillers # {}
    /\ DOMAIN board.searchHistory # {}

-----------------------------------------------------------------------------
(* Properties of the move executor, checked under Spec *)

\* every field of the board that a position consists of, the piece lists aside
PositionFields(b) ==
    <<b.pieces, b.pawns, b.KingSq, b.side, b.enPas, b.castlePerm, b.fiftyMove, b.ply,
      b.hisPly, b.material, b.bigPce, b.majPce, b.minPce, b.pieceCount, b.posKey>>

\* the live entries of every piece list, in list order, and as sets of squares
PieceLists(b) == [p \in Pieces |-> [i \in 0..(b.pieceCount[p] - 1) |-> b.pList[p][i]]]
PieceListSquares(b) == [p \in Pieces |-> {b.pList[p][i] : i \in 0..(b.pieceCount[p] - 1)}]

CapturedCounts(b) == <<b.capturedWhiteCount, b.capturedBlackCount>>

\* the last call was a Move_Take undoing the accepted Move_Make made just before it
TookBackMade == last.op = "take" /\ last.made

\* the last call was a Move_Make that returned false / true
MakeRejected == last.op = "make" /\ last.ret = BOOL_TYPE_FALSE
MakeAccepted == last.op = "make" /\ last.ret = BOOL_TYPE_TRUE

\* C1 as stated: after an accepted Move_Make followed by Move_Take every field is
\* identical to its value before the Move_Make, the piece lists entry by entry.
C1_RoundTripIdentical ==
    TookBackMade =>
        /\ PositionFields(board) = PositionFields(last.orig)
        /\ PieceLists(board) = PieceLists(last.orig)

\* C1 as the code has it: after an accepted Move_Make followed by Move_Take the
\* mailbox, the pawn bit-sets, the piece counts, king squares, side, en-passant
\* square, castling rights, fifty-move counter, ply, hisPly, material, the
\* big/major/minor counters and posKey are identical to their values before the
\* Move_Make, and every piece list holds the same squares as before, in any order.
C1_RoundTrip ==
    TookBackMade =>
        /\ PositionFields(board) = PositionFields(last.orig)
        /\ PieceListSquares(board) = PieceListSquares(last.orig)

\* a capture was made and taken back, and the victim's piece list came back reordered
C1_Witness ==
    /\ TookBackMade
    /\ MOVE_GET_CAPTURED(last.move) # EMPTY
    /\ PieceLists(board) # PieceLists(last.orig)
    /\ PieceListSquares(board) = PieceListSquares(last.orig)

\* C2: in every state reached by Move_Make (accepted or rejected), Move_Take,
\* MakeNullMove and TakeNullMove from a parsed position, the incrementally kept
\* posKey equals Board_GeneratePositionKey recomputed from the board.
C2_PosKeyConsistent == board.posKey = Board_GeneratePositionKey(board)

\* a double pawn push has set an en-passant square, or an en-passant capture was
\* taken back, and the key holds the en-passant key
C2_Witness ==
    /\ last.op \in {"make", "take"}
    /\ HasFlag(last.move, MFLAGPS) \/ HasFlag(last.move, MFLAGEP)
    /\ board.enPas # NO_SQ
    /\ g_pieceKeys(EMPTY, board.enPas) \in board.posKey

C4_MoverKingSafe ==
    MakeAccepted =>
        ~Attack_IsSquareAttacked(board.KingSq[last.pre.side], board.side, board)

\* an accepted castle, en-passant capture or promotion
C4_Witness ==
    /\ MakeAccepted
    /\ \/ HasFlag(last.move, MFLAGCA)
       \/ HasFlag(last.move, MFLAGEP)
       \/ MOVE_GET_PROMOTED(last.move) # EMPTY

\* C5: the mailbox and the piece lists agree: for every piece type the first
\* pieceCount entries of its list are, without duplicates, exactly the squares of
\* the board holding that piece, and every occupied square holds a valid piece.
C5_ListsAgree ==
    /\ \A p \in Pieces :
          /\ board.pieceCount[p] \in 0..10
          /\ \A i, j \in 0..(board.pieceCount[p] - 1) :
                board.pList[p][i] = board.pList[p][j] => i = j
          /\ {board.pList[p][i] : i \in 0..(board.pieceCount[p] - 1)}
                = {sq \in 0..(CHESS_BOARD_SQUARE_NUM - 1) : board.pieces[sq] = p}
    /\ \A sq \in 0..(CHESS_BOARD_SQUARE_NUM - 1) :
          SqOnBoard(sq) /\ board.pieces[sq] # EMPTY => PieceValid(board.pieces[sq])

\* a promotion was made: a pawn left its list and a queen joined hers
C5_Witness ==
    /\ MakeAccepted
    /\ MOVE_GET_PROMOTED(last.move) = PIECE_TYPE_WHITE_QUEEN
    /\ board.pieceCount[PIECE_TYPE_WHITE_QUEEN] = last.pre.pieceCount[PIECE_TYPE_WHITE_QUEEN] + 1
    /\ board.pieceCount[PIECE_TYPE_WHITE_PAWN] = last.pre.pieceCount[PIECE_TYPE_WHITE_PAWN] - 1

-----------------------------------------------------------------------------
(* Properties of the captured-piece lists, checked under Spec *)

\* the squares, numbered 0..63, on which the mailbox of b holds a piece of colour
SquaresOfColour(b, colour) ==
    {sq64 \in 0..63 : Tab(g_pieceCol, b.pieces[SQUARE_64_TO_120(sq64)]) = colour}

\* the pieces of colour that the mailbox of b holds fewer of than the one of pre
Removed(pre, b, colour) ==
    Cardinality(SquaresOfColour(pre, colour)) - Cardinality(SquaresOfColour(b, colour))

\* C38: the counts are 0 after Board_ParseFromFEN; an accepted Move_Make adds to
\* capturedWhiteCount and capturedBlackCount the number of white and of black pieces
\* it removes from the board, a pawn captured en passant included, and writes the
\* removed piece as the new last entry of its array, leaving the entries before it;
\* a Move_Make followed by Move_Take leaves both counts as they were.
C38_CapturedCounted ==
    /\ last.op = "fen" => CapturedCounts(board) = <<0, 0>>
    /\ MakeAccepted =>
          /\ board.capturedWhiteCount
                = last.pre.capturedWhiteCount + Removed(last.pre, board, COLOR_TYPE_WHITE)
          /\ board.capturedBlackCount
                = last.pre.capturedBlackCount + Removed(last.pre, board, COLOR_TYPE_BLACK)
          /\ \A index \in 0..(last.pre.capturedWhiteCount - 1) :
                board.capturedWhite[index] = last.pre.capturedWhite[index]
          /\ \A index \in 0..(last.pre.capturedBlackCount - 1) :
                board.capturedBlack[index] = last.pre.capturedBlack[index]
          /\ Removed(last.pre, board, COLOR_TYPE_WHITE) = 1
                => IsWhitePiece(board.capturedWhite[board.capturedWhiteCount - 1])
          /\ Removed(last.pre, board, COLOR_TYPE_BLACK) = 1
                => IsBlackPiece(board.capturedBlack[board.capturedBlackCount - 1])
    /\ TookBackMade => CapturedCounts(board) = CapturedCounts(last.orig)

-----------------------------------------------------------------------------
(* Properties of the text front end, checked under SpecFront *)

\* the squares, numbered 0..63, on which the mailbox holds piece
SquaresOf(b, piece) ==
    {sq64 \in 0..63 : b.pieces[SQUARE_64_TO_120(sq64)] = piece}

\* C14: the pawn bit-sets agree with the mailbox: bit i of pawns[WHITE] (of
\* pawns[BLACK]) is set iff square i of the board holds a white (a black) pawn,
\* pawns[BOTH] is their union, and the number of bits of each set is the matching
\* pawn count.
C14_PawnsAgree ==
    /\ board.pawns[COLOR_TYPE_WHITE] = SquaresOf(board, PIECE_TYPE_WHITE_PAWN)
    /\ board.pawns[COLOR_TYPE_BLACK] = SquaresOf(board, PIECE_TYPE_BLACK_PAWN)
    /\ board.pawns[COLOR_TYPE_BOTH]
          = board.pawns[COLOR_TYPE_WHITE] \cup board.pawns[COLOR_TYPE_BLACK]
    /\ Cardinality(board.pawns[COLOR_TYPE_WHITE]) = board.pieceCount[PIECE_TYPE_WHITE_PAWN]
    /\ Cardinality(board.pawns[COLOR_TYPE_BLACK]) = board.pieceCount[PIECE_TYPE_BLACK_PAWN]
    /\ Cardinality(board.pawns[COLOR_TYPE_BOTH])
          = board.pieceCount[PIECE_TYPE_WHITE_PAWN] + board.pieceCount[PIECE_TYPE_BLACK_PAWN]

\* an en-passant capture or a promotion was made, or taken back: a pawn has left or
\* come back to a square that is not the move's destination
C14_Witness ==
    /\ last.op \in {"make", "take"}
    /\ HasFlag(last.move, MFLAGEP) \/ MOVE_GET_PROMOTED(last.move) # EMPTY
    /\ board.pawns # last.pre.pawns
    /\ Cardinality(board.pawns[COLOR_TYPE_BOTH]) # Cardinality(last.pre.pawns[COLOR_TYPE_BOTH])

\* the counters as Board_Check recomputes them over the 64 squares of the mailbox
RECURSIVE Recount(_, _, _, _)
Recount(b, table, colour, sq64) ==
    IF sq64 = 64 THEN 0
    ELSE (IF Tab(g_pieceCol, b.pieces[SQUARE_64_TO_120(sq64)]) = colour
          THEN Tab(table, b.pieces[SQUARE_64_TO_120(sq64)]) ELSE 0)
         + Recount(b, table, colour, sq64 + 1)

\* C15: material[colour] and the bigPce, majPce and minPce counters of each colour
\* equal the values recomputed from scratch over the 64 squares of the mailbox,
\* after any sequence of moves and of moves taken back.
C15_CountersAgree ==
    \A colour \in {COLOR_TYPE_WHITE, COLOR_TYPE_BLACK} :
        /\ board.material[colour] = Recount(board, g_pieceVal, colour, 0)
        /\ board.bigPce[colour] = Recount(board, PieceBig, colour, 0)
        /\ board.majPce[colour] = Recount(board, PieceMaj, colour, 0)
        /\ board.minPce[colour] = Recount(board, PieceMin, colour, 0)

\* a capture, an en-passant capture or a promotion was taken back
C15_Witness ==
    /\ last.op = "take"
    /\ \/ MOVE_GET_CAPTURED(last.move) # EMPTY
       \/ HasFlag(last.move, MFLAGEP)
       \/ MOVE_GET_PROMOTED(last.move) # EMPTY
    /\ board.material # last.pre.material

\* C10: when Board_ParseFromFEN reports an error, or Move_Parse returns NOMOVE, the
\* board is left exactly as it was before the call.
C10_FailureLeavesBoard ==
    /\ last.op = "fen" /\ last.ret # 0 => board = last.pre
    /\ last.op = "usermove" /\ last.move = NOMOVE => board = last.pre

-----------------------------------------------------------------------------
(* Properties of the transposition table, checked under SpecHash *)

\* the last call was a probe of a position whose slot was last stored into for this
\* very position
ProbedStored ==
    /\ last.op = "probe"
    /\ HashIndex(board) \in DOMAIN stored
    /\ stored[HashIndex(board)].posKey = board.posKey

\* the score HashTable_StoreEntry was given for the slot of the position
GivenScore == stored[HashIndex(board)].score

\* a score given at ply ply0 as a probe at ply ply1 sees it: a mate score is moved
\* by the difference of the two plies
SeenFrom(score, ply0, ply1) ==
    IF score > CHESS_IS_MATE THEN score + ply0 - ply1
    ELSE IF score < -CHESS_IS_MATE THEN score - ply0 + ply1
    ELSE score

\* C6 as stated: an exact score s stored at depth D is, with no later store to the
\* slot, reported usable by a probe at any depth <= D and any window, with exactly s.
C6_ExactReturnsGiven ==
    ProbedStored /\ stored[HashIndex(board)].flags = HFEXACT
                 /\ last.args.depth <= stored[HashIndex(board)].depth
        => last.ret = BOOL_TYPE_TRUE /\ last.args.score = GivenScore

\* C6 as the code has it: an exact score s stored at depth D is, with no later store
\* to the slot, reported usable by a probe at any depth <= D and any window; the
\* score returned is exactly s when s is no mate score (|s| <= CHESS_IS_MATE) or the
\* probe is made at the ply of the store, and otherwise s moved by the difference of
\* the storing and the probing ply.
C6_ExactReturnsSeen ==
    ProbedStored /\ stored[HashIndex(board)].flags = HFEXACT
                 /\ last.args.depth <= stored[HashIndex(board)].depth
        => /\ last.ret = BOOL_TYPE_TRUE
           /\ last.args.score = SeenFrom(GivenScore, stored[HashIndex(board)].ply, board.ply)
           /\ ((GivenScore <= CHESS_IS_MATE /\ GivenScore >= -CHESS_IS_MATE)
                 \/ stored[HashIndex(board)].ply = board.ply) => last.args.score = GivenScore

\* an exact mate score stored at one ply was probed at another
C6_Witness ==
    /\ ProbedStored
    /\ stored[HashIndex(board)].flags = HFEXACT
    /\ last.args.depth <= stored[HashIndex(board)].depth
    /\ GivenScore > CHESS_IS_MATE
    /\ stored[HashIndex(board)].ply # board.ply
    /\ last.ret = BOOL_TYPE_TRUE

\* the conditions of C7 for the entry in the slot of the position, with score the
\* score that is compared with the window
Compatible(entry, score) ==
    /\ entry.posKey = board.posKey
    /\ entry.depth >= last.args.depth
    /\ \/ entry.flags = HFEXACT
       \/ (entry.flags = HFBETA /\ score >= last.args.beta)
       \/ (entry.flags = HFALPHA /\ score <= last.args.alpha)

\* C7 as stated: a probe reports usable iff the key is equal, the stored depth is at
\* least the requested one and the bound kind is compatible with the window, the
\* score compared being the score that was stored for the position.
C7_UsableIffGiven ==
    ProbedStored =>
        (last.ret = BOOL_TYPE_TRUE <=>
            Compatible(TableEntry(board, HashIndex(board)), GivenScore))

\* C7 as the code has it: a probe reports usable iff the key is equal, the stored
\* depth is at least the requested one and the bound kind is compatible with the
\* window: exact always, lower bound only when the score is >= beta, upper bound only
\* when the score is <= alpha, where the score is the entry's score after the
\* mate-distance adjustment to the probing ply.
C7_UsableIffSeen ==
    last.op = "probe" =>
        (last.ret = BOOL_TYPE_TRUE <=>
            Compatible(TableEntry(board, HashIndex(board)),
                       SeenFrom(TableEntry(board, HashIndex(board)).score, 0, board.ply)))

\* a lower-bound entry was reported usable at a beta above the score that was stored,
\* the mate score seen at the probing ply meeting that beta
C7_Witness ==
    /\ ProbedStored
    /\ last.ret = BOOL_TYPE_TRUE
    /\ stored[HashIndex(board)].flags = HFBETA
    /\ GivenScore < last.args.beta
    /\ SeenFrom(TableEntry(board, HashIndex(board)).score, 0, board.ply) >= last.args.beta

UsableStored == ProbedStored /\ last.ret = BOOL_TYPE_TRUE

\* C32 as stated: a score s stored at ply p1 and read as usable at ply p2 is
\* returned as s + p1 - p2 when s > CHESS_IS_MATE, as s - p1 + p2 when
\* s < -CHESS_IS_MATE, and as s itself when s is no mate score, whatever the bound
\* kind of the entry.
C32_ShiftedReturned ==
    UsableStored =>
        last.args.score = SeenFrom(GivenScore, stored[HashIndex(board)].ply, board.ply)

\* C32 as the code has it: the score a usable probe works with is s + p1 - p2 for a
\* stored s > CHESS_IS_MATE, s - p1 + p2 for s < -CHESS_IS_MATE and s itself
\* otherwise; an exact entry returns that score, an upper bound has it <= alpha and
\* returns alpha, a lower bound has it >= beta and returns beta; what the slot holds
\* is s moved away from zero by p1 for a mate score and s itself otherwise.
C32_ShiftedCompared ==
    UsableStored =>
        LET entry == TableEntry(board, HashIndex(board))
            given == stored[HashIndex(board)]
            seen  == SeenFrom(given.score, given.ply, board.ply)
        IN /\ entry.score = SeenFrom(given.score, given.ply, 0)
           /\ (given.score <= CHESS_IS_MATE /\ given.score >= -CHESS_IS_MATE)
                 => entry.score = given.score /\ seen = given.score
           /\ entry.flags = HFEXACT => last.args.score = seen
           /\ entry.flags = HFALPHA => seen <= last.args.alpha
                                         /\ last.args.score = last.args.alpha
           /\ entry.flags = HFBETA => seen >= last.args.beta
                                        /\ last.args.score = last.args.beta

\* a mate score against the side to move, stored exact below the root, was read as
\* usable at the root of the next search and came back farther from zero by the
\* difference of the plies
C32_Witness ==
    /\ UsableStored
    /\ stored[HashIndex(board)].flags = HFEXACT
    /\ GivenScore < -CHESS_IS_MATE
    /\ stored[HashIndex(board)].ply > board.ply
    /\ last.args.score = GivenScore - stored[HashIndex(board)].ply + board.ply
    /\ last.args.score # GivenScore

-----------------------------------------------------------------------------
(* Properties of the table over the games of a front end, checked under SpecGame *)

\* every entry of the table is empty
TableEmpty(table) ==
    \A index \in DOMAIN table.pTable : Get(table.pTable, index, HashEntry) = HashEntry

\* C12: after the new-game command of any front end (XBoard and console "new", UCI
\* "ucinewgame", the new game of the GUI) and after HashTable_Init every entry of
\* the table is empty, so that a probe made next, in the new game, reports no entry
\* and gives no move.
C12_NewGameClears ==
    /\ [](last.op \in {"new", "resize"} => TableEmpty(board.HashTable))
    /\ [][last.op \in {"new", "resize"} /\ last'.op = "probe"
             => last'.ret = BOOL_TYPE_FALSE /\ last'.move = NOMOVE]_vars

-----------------------------------------------------------------------------
(* Properties of HashTable_Init, checked under SpecAlloc *)

\* C13: a call of HashTable_Init always ends: when allocations fail it retries at
\* half the size until an allocation succeeds or a floor ends the retries, and
\* returns, even if every allocation attempt fails.
C13_InitTerminates == (search.pc = "alloc") ~> (search.pc = "idle")

\* the index of HashTable_StoreEntry and HashTable_ProbeEntry lies in the table
IndexInTable ==
    last.op \in {"store", "probe"}
        => HashIndex(last.pre) \in 0..(last.pre.HashTable.numEntries - 1)

\* C20 as stated: after the call HashTable_Init(table, MB) that allocates the table,
\* numEntries is floor(MB * 2^20 / sizeof(HashEntry)), and the index of every probe
\* and store lies in 0..numEntries - 1.
C20_CapacityWhole ==
    /\ last.op = "init" /\ search.pc = "idle"
          => board.HashTable.numEntries = (last.args.MB * 1048576) \div SizeofHashEntry
    /\ IndexInTable

\* C20 as the code has it: after the call HashTable_Init(table, MB) that allocates
\* the table, numEntries is floor(MB * 2^20 / sizeof(HashEntry)) - 2, and the index
\* of every probe and store lies in 0..numEntries - 1.
C20_Capacity ==
    /\ last.op = "init" /\ search.pc = "idle"
          => board.HashTable.numEntries
                = ((last.args.MB * 1048576) \div SizeofHashEntry) - 2
    /\ IndexInTable

\* a table asked for with 64 MB was allocated with 1 MB, and an entry stored in it
C20_Witness ==
    /\ last.op = "store"
    /\ board.HashTable.numEntries = (1048576 \div SizeofHashEntry) - 2
    /\ HashIndex(last.pre) \in DOMAIN board.HashTable.pTable
    /\ HashIndex(last.pre) < board.HashTable.numEntries

-----------------------------------------------------------------------------
(* Properties of the search, checked under SpecSearch *)

\* Search_Position or Search_GetBestMove has just ended
SearchEnded == last.op \in {"search", "bestmove"}

\* b has a legal move: a generated move that Move_Make accepts
SomeLegalMove(b) ==
    \E entry \in Range(Move_GenerateAll(b)) : Move_Make(b, entry.move).ret = BOOL_TYPE_TRUE

\* move is generated in b and Move_Make accepts it
LegalIn(b, move) ==
    /\ \E entry \in Range(Move_GenerateAll(b)) : entry.move = move
    /\ Move_Make(b, move).ret = BOOL_TYPE_TRUE

\* C8: a search that was stopped, at any point of the iterative deepening, the first
\* iteration included, in a position that has a legal move, yields a move and not the
\* non-move NOMOVE.
C8_StoppedYieldsMove ==
    SearchEnded /\ last.ret = BOOL_TYPE_TRUE /\ SomeLegalMove(last.pre)
        => last.move # NOMOVE

\* C9: in a position with at least one legal move, a search with depth limit >= 1
\* that is not stopped returns a move that is legal in that position (Move_Make on
\* it succeeds), and it terminates: a search does not go on taking steps for ever,
\* so that where steps are taken again and again the search is over again and again.
C9_UnstoppedReturnsLegal ==
    /\ [](SearchEnded /\ last.ret = BOOL_TYPE_FALSE /\ last.args.depth >= 1
            /\ SomeLegalMove(last.pre)
          => LegalIn(last.pre, last.move))
    /\ ([]<><<search.pc # "idle">>_vars => []<>(search.pc = "idle"))

\* a search of the starting position that was not stopped has ended after all its
\* depths, with a legal move
C9_Witness ==
    /\ SearchEnded
    /\ last.ret = BOOL_TYPE_FALSE
    /\ last.text = <<>>
    /\ last.pre.hisPly = 0
    /\ last.pre.pieceCount[PIECE_TYPE_WHITE_PAWN] = 8
    /\ last.args.depth >= 1
    /\ last.args.completed = last.args.depth
    /\ search.pc = "idle"
    /\ LegalIn(last.pre, last.move)

-----------------------------------------------------------------------------
(* Properties of the front ends, checked under SpecFront *)

\* the text names move: its squares, and the letter of its promoted piece if any
TextNames(text, move) ==
    /\ SubSeq(PrMove(move), 1, 4) = SubSeq(text, 1, 4)
    /\ MOVE_GET_PROMOTED(move) # EMPTY => PrMove(move) = text

\* C16: Move_Parse returns a move other than NOMOVE only if the move is legal in the
\* current position (Move_Make on it succeeds) and its source square, destination
\* square and promotion piece match the text; for every other text, one that names
\* no legal move, it returns NOMOVE.
C16_ParseReturnsLegal ==
    last.op = "usermove" =>
        IF last.move # NOMOVE
        THEN LegalIn(last.pre, last.move) /\ TextNames(last.text, last.move)
        ELSE ~\E entry \in Range(Move_GenerateAll(last.pre)) :
                LegalIn(last.pre, entry.move) /\ TextNames(last.text, entry.move)

-----------------------------------------------------------------------------
(* Properties of the game result, checked under SpecResult and SpecMaterial *)

\* the number of earlier positions of the game whose key is the key of b
EarlierSame(b) ==
    Cardinality({i \in 0..(b.hisPly - 1) : History(b, i).posKey = b.posKey})

DrawTexts == {"1/2-1/2 {fifty move rule}", "1/2-1/2 {3-fold repetition}"}

OnBoard(b, kinds) ==
    Cardinality({sq64 \in 0..63 : b.pieces[SQUARE_64_TO_120(sq64)] \in kinds})

\* a side of b holds its king alone, or its king and one knight or one bishop
KingOrKingAndMinor(b, pawn, knight, bishop, rook, queen) ==
    /\ OnBoard(b, {pawn, rook, queen}) = 0
    /\ OnBoard(b, {knight, bishop}) <= 1

-----------------------------------------------------------------------------
(* Properties of Search_GetBestMove, checked under SpecStop *)

\* the fields of the position that the search is to leave alone
SearchedFields(b) ==
    <<b.pieces, b.pawns, b.side, b.castlePerm, b.enPas, b.fiftyMove, b.hisPly, b.posKey>>

\* C19 as stated: on return from Search_GetBestMove, whether the search completed
\* or was stopped, the mailbox, the bit-sets, side, castling rights, en-passant
\* square, fifty-move counter, hisPly and posKey equal their values at entry, and
\* so do the piece lists, entry by entry.
C19_PositionIdentical ==
    last.op = "bestmove" /\ search.pc = "idle" =>
        /\ SearchedFields(board) = SearchedFields(last.pre)
        /\ PieceLists(board) = PieceLists(last.pre)

\* C19 as the code has it: on return from Search_GetBestMove, whether the search
\* completed or was stopped, the mailbox, the bit-sets, side, castling rights,
\* en-passant square, fifty-move counter, hisPly and posKey equal their values at
\* entry, and every piece list holds the same squares as at entry, in any order.
C19_PositionKept ==
    last.op = "bestmove" /\ search.pc = "idle" =>
        /\ SearchedFields(board) = SearchedFields(last.pre)
        /\ PieceListSquares(board) = PieceListSquares(last.pre)

\* a search has returned after captures made and taken back: a piece list holds the
\* squares it held at entry in another order
C19_Witness ==
    /\ last.op = "bestmove"
    /\ search.pc = "idle"
    /\ info.nodes > 1
    /\ PieceLists(board) # PieceLists(last.pre)
    /\ PieceListSquares(board) = PieceListSquares(last.pre)

-----------------------------------------------------------------------------
(* Properties of a game from the starting position, checked under SpecMate *)

\* the moves of b's game so far are the first count moves of the fool's mate
FoolsMatePlayed(b, count) ==
    /\ b.hisPly = count
    /\ \A k \in 1..count : PrMove(History(b, k - 1).move) = FoolsMate[k]

\* C21: played from the starting position, every move of the fool's mate f2f3 e7e5
\* g2g4 d8h4 is accepted by Move_Make, the last included; in the position after it
\* the king of the side to move is attacked and Move_Make accepts no generated
\* move, and checkresult reports the mate of the side to move.
C21_FoolsMate ==
    /\ \A k \in DOMAIN FoolsMate :
          last.op = "usermove" /\ last.text = FoolsMate[k] /\ FoolsMatePlayed(last.pre, k - 1)
            => last.move # NOMOVE /\ last.ret = BOOL_TYPE_TRUE /\ FoolsMatePlayed(board, k)
    /\ FoolsMatePlayed(board, 4)
        => /\ board.side = COLOR_TYPE_WHITE
           /\ Attack_IsSquareAttacked(board.KingSq[board.side], 1 - board.side, board)
           /\ ~SomeLegalMove(board)
    /\ last.op = "checkresult" /\ FoolsMatePlayed(last.pre, 4)
        => last.ret = BOOL_TYPE_TRUE /\ last.args.text = "0-1 {black mates}"

\* the result was asked for after the four moves
C21_Witness ==
    /\ last.op = "checkresult"
    /\ FoolsMatePlayed(last.pre, 4)
    /\ last.args.text = "0-1 {black mates}"

-----------------------------------------------------------------------------
(* Properties of the evaluation, checked under SpecEval *)

\* C22: Evaluate_Position is colour-symmetric: the evaluation of a position equals
\* the evaluation of its mirror, the position Board_Mirror makes of it by flipping
\* the ranks and swapping the colours of the pieces, the castling rights and the
\* side to move.
C22_EvalSymmetric ==
    last.op = "mirror" => last.ret = last.args.ev1

\* a position with a rook on an open file, a passed pawn and unequal material was
\* mirrored, and its evaluation is not zero
C22_Witness ==
    /\ last.op = "mirror"
    /\ last.args.ev1 # 0
    /\ last.pre.material[COLOR_TYPE_WHITE] # last.pre.material[COLOR_TYPE_BLACK]
    /\ last.pre.pieceCount[PIECE_TYPE_WHITE_ROOK] > 0
    /\ last.pre.pieceCount[PIECE_TYPE_WHITE_PAWN] > 0
    /\ board.side # last.pre.side

-----------------------------------------------------------------------------
(* Properties of the en-passant square and of castling, checked under Spec *)

\* the move went from a square holding a pawn to the square two ranks away
DoublePawnPush(b, move) ==
    /\ Tab(g_piecePawn, b.pieces[MOVE_GET_FROM_SQUARE(move)]) = 1
    /\ Abs(MOVE_GET_TO_SQUARE(move) - MOVE_GET_FROM_SQUARE(move)) = 20

\* C24: after every accepted Move_Make the en-passant square is NO_SQ, unless the
\* move is a double pawn push, and then it is the square the pawn passed over
\* (from + 10 for White, from - 10 for Black); the en-passant square of the
\* position before the move never survives it.
C24_EnPasAfterMake ==
    MakeAccepted =>
        /\ board.enPas =
              IF DoublePawnPush(last.pre, last.move)
              THEN IF last.pre.side = COLOR_TYPE_WHITE
                   THEN MOVE_GET_FROM_SQUARE(last.move) + 10
                   ELSE MOVE_GET_FROM_SQUARE(last.move) - 10
              ELSE NO_SQ
        /\ board.enPas # NO_SQ => board.enPas # last.pre.enPas

\* a move that is no double push was accepted in a position with an en-passant
\* square, which is gone after it
C24_Witness ==
    /\ MakeAccepted
    /\ last.pre.enPas # NO_SQ
    /\ ~DoublePawnPush(last.pre, last.move)
    /\ board.enPas = NO_SQ

\* the history record MakeNullMove appends to the history of b
NullMoveRecord(b) ==
    [History(b, b.hisPly) EXCEPT !.posKey = b.posKey, !.move = NOMOVE,
                                 !.fiftyMove = b.fiftyMove, !.enPas = b.enPas,
                                 !.castlePerm = b.castlePerm]

\* the key of b without its en-passant part and with the side part toggled
NullMoveKey(b) ==
    Xor(IF b.enPas # NO_SQ THEN Xor(b.posKey, g_pieceKeys(EMPTY, b.enPas)) ELSE b.posKey,
        g_sideKey)

Castlings ==
    {[perm |-> CASTLE_TYPE_WKCA, kingSq |-> E1, transitSq |-> F1, toSq |-> G1,
      between |-> {F1, G1}, bySide |-> COLOR_TYPE_BLACK],
     [perm |-> CASTLE_TYPE_WQCA, kingSq |-> E1, transitSq |-> D1, toSq |-> C1,
      between |-> {D1, C1, B1}, bySide |-> COLOR_TYPE_BLACK],
     [perm |-> CASTLE_TYPE_BKCA, kingSq |-> E8, transitSq |-> F8, toSq |-> G8,
      between |-> {F8, G8}, bySide |-> COLOR_TYPE_WHITE],
     [perm |-> CASTLE_TYPE_BQCA, kingSq |-> E8, transitSq |-> D8, toSq |-> C8,
      between |-> {D8, C8, B8}, bySide |-> COLOR_TYPE_WHITE]}

\* move is one of the four castlings, allowed in b by the rights, the empty squares
\* and the unattacked squares of the king and of its transit
CastleAllowed(b, move) ==
    \E c \in Castlings :
        /\ MOVE_GET_FROM_SQUARE(move) = c.kingSq
        /\ MOVE_GET_TO_SQUARE(move) = c.toSq
        /\ c.bySide = Flip(b.side)
        /\ BitAnd(b.castlePerm, c.perm) # 0
        /\ \A sq \in c.between : b.pieces[sq] = EMPTY
        /\ ~Attack_IsSquareAttacked(c.kingSq, c.bySide, b)
        /\ ~Attack_IsSquareAttacked(c.transitSq, c.bySide, b)

\* C25: Move_GenerateAll lists a castling move only when the matching rights bit is
\* set, all squares between king and rook are empty, and neither the king's square
\* nor its transit square is attacked by the opponent; and after a castling move that
\* Move_Make accepted, the square the king stands on is not attacked either, so the
\* king went neither out of, through, nor into an attacked square.
C25_CastleSafe ==
    /\ SideValid(board.side) =>
          \A entry \in Range(Move_GenerateAll(board)) :
              HasFlag(entry.move, MFLAGCA) => CastleAllowed(board, entry.move)
    /\ MakeAccepted /\ HasFlag(last.move, MFLAGCA) =>
          /\ CastleAllowed(last.pre, last.move)
          /\ ~Attack_IsSquareAttacked(MOVE_GET_TO_SQUARE(last.move), board.side, last.pre)
          /\ ~Attack_IsSquareAttacked(MOVE_GET_TO_SQUARE(last.move), board.side, board)

\* a queen-side castling was accepted although the rook passed over an attacked square
C25_Witness ==
    /\ MakeAccepted
    /\ HasFlag(last.move, MFLAGCA)
    /\ MOVE_GET_TO_SQUARE(last.move) = C1
    /\ Attack_IsSquareAttacked(B1, COLOR_TYPE_BLACK, last.pre)
    /\ board.pieces[C1] = PIECE_TYPE_WHITE_KING
    /\ board.pieces[D1] = PIECE_TYPE_WHITE_ROOK

\* castling was not listed, with the rights and the empty squares, for an attack on
\* the transit square
CastleTransitAttacked ==
    /\ board.side = COLOR_TYPE_WHITE
    /\ BitAnd(board.castlePerm, CASTLE_TYPE_WQCA) # 0
    /\ \A sq \in {D1, C1, B1} : board.pieces[sq] = EMPTY
    /\ ~Attack_IsSquareAttacked(E1, COLOR_TYPE_BLACK, board)
    /\ Attack_IsSquareAttacked(D1, COLOR_TYPE_BLACK, board)
    /\ \A entry \in Range(Move_GenerateAll(board)) : MOVE_GET_TO_SQUARE(entry.move) # C1
                                                      \/ ~HasFlag(entry.move, MFLAGCA)

\* a castling into an attacked square was listed and rejected by Move_Make
CastleIntoAttacked ==
    /\ MakeRejected
    /\ HasFlag(last.move, MFLAGCA)

-----------------------------------------------------------------------------
(* Properties of the null move in the search, checked under SpecDeep *)

\* AlphaBeta has just made a null move and calls the search of it
NullMoveMade ==
    /\ search.pc = "call"
    /\ search.stack # <<>>
    /\ search.stack[Len(search.stack)].null

\* the knights, bishops, rooks and queens of a side
OfficersOf(side) ==
    IF side = COLOR_TYPE_WHITE
    THEN {PIECE_TYPE_WHITE_KNIGHT, PIECE_TYPE_WHITE_BISHOP, PIECE_TYPE_WHITE_ROOK,
          PIECE_TYPE_WHITE_QUEEN}
    ELSE {PIECE_TYPE_BLACK_KNIGHT, PIECE_TYPE_BLACK_BISHOP, PIECE_TYPE_BLACK_ROOK,
          PIECE_TYPE_BLACK_QUEEN}

\* the side that passed was not in check, the node is not the root, the remaining
\* depth is at least 4 and the move before the null move was a move
NullMoveTested ==
    NullMoveMade =>
        /\ ~Attack_IsSquareAttacked(board.KingSq[Flip(board.side)], board.side, board)
        /\ board.ply - 1 > 0
        /\ search.stack[Len(search.stack)].depth >= 4
        /\ search.call.DoNull = BOOL_TYPE_FALSE
        /\ History(board, board.hisPly - 2).move # NOMOVE

\* C27: AlphaBeta makes a null move at a node only when the side to move is not in
\* check, the node is not the root (ply > 0), the side to move holds at least one
\* knight, bishop, rook or queen besides its king, the remaining depth is at least 4,
\* and the previous move on the line was not a null move.
C27_NullMoveGuarded ==
    /\ NullMoveTested
    /\ NullMoveMade =>
          \E sq \in DOMAIN board.pieces : board.pieces[sq] \in OfficersOf(Flip(board.side))

-----------------------------------------------------------------------------
(* Properties of the test of the ply in AlphaBeta and Quiescence, checked under    *)
(* SpecLine                                                                        *)

\* a function is entered at a ply beyond the last supported one
EnteredBeyond == search.pc = "call" /\ board.ply >= CHESS_MAX_SEARCH_DEPTH

\* C28: a node entered with ply >= CHESS_MAX_SEARCH_DEPTH returns the static
\* evaluation (or a draw score) without generating or making any move and without
\* touching the board, so that move loops run, and the killer table and the PV array
\* are indexed, only at plies up to CHESS_MAX_SEARCH_DEPTH - 1, null moves and
\* capture searches included.
C28_DepthGuard ==
    /\ [](search.pc = "loop" => board.ply <= CHESS_MAX_SEARCH_DEPTH - 1)
    /\ [](board.ply <= CHESS_MAX_SEARCH_DEPTH)
    /\ [](\A i \in DOMAIN board.searchKillers : i[2] \in 0..(CHESS_MAX_SEARCH_DEPTH - 1))
    /\ [](DOMAIN board.PvArray \subseteq 0..(CHESS_MAX_SEARCH_DEPTH - 1))
    /\ [][EnteredBeyond =>
             /\ board' = board
             /\ search'.stack = search.stack
             /\ \/ /\ search'.pc = "return"
                   /\ search'.ret \in {Evaluate_Position(board), 0}
                \/ /\ search.call.fn = "AlphaBeta"
                   /\ search.call.depth <= 0
                   /\ search'.pc = "call"
                   /\ search'.call.fn = "Quiescence"]_vars

\* Quiescence, entered at ply CHESS_MAX_SEARCH_DEPTH after a capture made at the ply
\* before, has returned the static evaluation
C28_Witness ==
    /\ search.pc = "return"
    /\ search.op = "line"
    /\ search.call.fn = "Quiescence"
    /\ board.ply = CHESS_MAX_SEARCH_DEPTH
    /\ MOVE_GET_CAPTURED(History(board, board.hisPly - 1).move) # EMPTY
    /\ search.ret = Evaluate_Position(board)
    /\ search.ret # 0
    /\ Len(search.stack) >= 2

\* AlphaBeta, entered at ply CHESS_MAX_SEARCH_DEPTH with depth left, has returned
NodeBeyondAlphaBeta ==
    /\ search.pc = "return"
    /\ search.call.fn = "AlphaBeta"
    /\ search.call.depth >= 1
    /\ board.ply = CHESS_MAX_SEARCH_DEPTH

\* AlphaBeta is entered at ply CHESS_MAX_SEARCH_DEPTH after a null move
NodeBeyondNullMove == EnteredBeyond /\ NullMoveMade

-----------------------------------------------------------------------------
(* Properties of the counters of the move executor in a search, checked under      *)
(* SpecLocked                                                                      *)

\* C29: the range assertions of the move executor hold in every search run with a
\* depth limit up to CHESS_MAX_SEARCH_DEPTH: after Move_Make or MakeNullMove has
\* incremented the counters, 0 <= ply < CHESS_MAX_SEARCH_DEPTH and
\* 0 <= hisPly < CHESS_MAX_GAME_MOVES.
C29_CountersInRange ==
    search.pc # "idle" =>
        /\ board.ply \in 0..(CHESS_MAX_SEARCH_DEPTH - 1)
        /\ board.hisPly \in 0..(CHESS_MAX_GAME_MOVES - 1)

-----------------------------------------------------------------------------
(* Properties of the entries AlphaBeta writes, checked under SpecBound *)

\* the frame of the node the search is at
TopFrame == search.stack[Len(search.stack)]

\* the call of a move of an AlphaBeta node has returned a score that reaches beta
FailsHigh ==
    /\ search.pc = "return"
    /\ search.stack # <<>>
    /\ TopFrame.fn = "AlphaBeta"
    /\ ~TopFrame.null
    /\ info.stopped = BOOL_TYPE_FALSE
    /\ -search.ret >= TopFrame.beta

\* the move loop of an AlphaBeta node has ended
LoopEnds ==
    /\ search.pc = "loop"
    /\ TopFrame.fn = "AlphaBeta"
    /\ TopFrame.MoveNum >= Len(TopFrame.list)

\* a score as the table records it at ply: a mate score is moved by the ply
Recorded(score, ply) ==
    IF score > CHESS_IS_MATE THEN score + ply
    ELSE IF score < -CHESS_IS_MATE THEN score - ply
    ELSE score

\* a score as the node has it
Given(score, ply) == score

\* the step leaves the node and has written its entry: the position of the node,
\* the move, the score, the bound kind and the depth of the node
Wrote(move, score, flags) ==
    /\ Len(search'.stack) = Len(search.stack) - 1
    /\ board'.ply = Len(search'.stack)
    /\ TableEntry(board', HashIndex(board')) =
           [posKey |-> board'.posKey, move |-> move, score |-> score,
            depth |-> TopFrame.depth, flags |-> flags]

\* the entries of AlphaBeta, Seen(_, _) giving the score an entry holds for the score
\* and the ply of the node
BoundKinds(Seen(_, _)) ==
    /\ FailsHigh =>
          /\ Wrote(TopFrame.list[TopFrame.MoveNum + 1].move,
                   Seen(TopFrame.beta, board'.ply), HFBETA)
          /\ search'.pc = "return"
          /\ search'.ret = TopFrame.beta
    /\ LoopEnds /\ TopFrame.Legal # 0 /\ TopFrame.alpha # TopFrame.OldAlpha =>
          /\ Wrote(TopFrame.BestMove, Seen(TopFrame.BestScore, board'.ply), HFEXACT)
          /\ TopFrame.BestScore = TopFrame.alpha
          /\ TopFrame.alpha < TopFrame.beta
    /\ LoopEnds /\ TopFrame.Legal # 0 /\ TopFrame.alpha = TopFrame.OldAlpha =>
          /\ Wrote(TopFrame.BestMove, Seen(TopFrame.alpha, board'.ply), HFALPHA)
          /\ TopFrame.BestScore <= TopFrame.alpha
    /\ LoopEnds /\ TopFrame.Legal = 0 =>
          board'.HashTable = board.HashTable
    /\ board'.HashTable.pTable # board.HashTable.pTable =>
          FailsHigh \/ (LoopEnds /\ TopFrame.Legal # 0)

\* C30 as stated: every entry AlphaBeta writes carries the bound kind of the node's
\* outcome: a lower bound with score beta when a move's score reached beta (no
\* further move is tried and beta is returned), an exact bound with the best score
\* when some move raised alpha without reaching beta, an upper bound with score
\* alpha when no move raised alpha; a node without a legal move writes no entry.
C30_BoundKindsGiven == [][BoundKinds(Given)]_vars

\* C30 as amended: the same, the score of the entry being beta, the best score or
\* alpha as the table records it: a score beyond CHESS_IS_MATE in absolute value is
\* moved away from zero by the ply of the node.
C30_BoundKindsSeen == [][BoundKinds(Recorded)]_vars

\* entries of the three kinds stand in the table, one of them with a mate score
\* written below the root, and a node without a legal move has returned
C30_Witness ==
    /\ search.pc = "finish"
    /\ \A flags \in {HFALPHA, HFBETA, HFEXACT} :
          \E index \in DOMAIN board.HashTable.pTable :
             board.HashTable.pTable[index].flags = flags
    /\ \E index \in DOMAIN board.HashTable.pTable :
          /\ board.HashTable.pTable[index].score > CHESS_IS_MATE
          /\ board.HashTable.pTable[index].posKey # board.posKey
    /\ info.nodes > 0

-----------------------------------------------------------------------------
(* Properties of the node count, checked under SpecPerft *)

\* the leaf counts of the starting position at depths 1 to 5
PerftReference == <<20, 400, 8902, 197281, 4865609>>

-----------------------------------------------------------------------------
(* Properties of the SDL front end, checked under SpecGui *)

\* the position on the board: the pieces on the squares and the side to move
GuiPosition(b) == <<b.pieces, b.side>>

\* C39: once gameOver is set, by a result of the game or by a clock that ran out, a
\* click leaves the position on the board as it is, also where the promotion dialog
\* was open when the game ended; only a new game changes it
C39_OverGameKept ==
    [][(gui.gameOver # 0 /\ last'.op = "click")
          => GuiPosition(board') = GuiPosition(board)]_vars

\* C40: the promotion dialog is open only for a move that can be made, so that a
\* click on any of its four pieces makes the move and closes the dialog
C40_DialogCompletes ==
    gui.promotionPending # 0
       => \A choice \in PromotionChoices :
             GUI_HandleMouseClick(gui, board, NO_SQ, choice).gui.promotionPending = 0

-----------------------------------------------------------------------------
(* Properties of a long game in the SDL front end, checked under SpecGuiLong *)

\* the next click reaches the Move_GenerateAll of checkresult: no dialog is open, the
\* game is not over, and checkresult finds none of its draws
GuiGenerates(g, b) ==
    /\ g.promotionPending = 0
    /\ ~GameIsOver(g)
    /\ b.fiftyMove <= 100
    /\ ThreeFoldRep(b) < 2
    /\ DrawMaterial(b) = BOOL_TYPE_FALSE

\* C37: in a game of any length, board->ply is below CHESS_MAX_SEARCH_DEPTH whenever
\* a click of the GUI runs Move_GenerateAll, which indexes the killers by the ply
C37_PlyBelowDepth ==
    [][(last'.op = "click" /\ GuiGenerates(gui, board))
          => board.ply < CHESS_MAX_SEARCH_DEPTH]_vars

\* C34: checkresult and SetGameOver declare the draw by the fifty-move rule in
\* exactly the positions the search scores as drawn by its test of the counter
C34_FiftyMoveAgreed ==
    /\ checkresult(board).text = "1/2-1/2 {fifty move rule}" <=> FiftyMoveReached(board)
    /\ SetGameOver(gui, board).gameOverMessage = "DRAW! Fifty Move Rule"
          <=> FiftyMoveReached(board)

-----------------------------------------------------------------------------
(* Properties of the ordering scores, checked under SpecOrder *)

\* the entry of a capture or of an en-passant capture
IsCaptureEntry(entry) == MFLAGCAP_Set(entry.move)

\* the scores of the list a node iterates, with hash move PvMove, are tiered
Tiered(list, PvMove) ==
    /\ \A i, j \in DOMAIN list :
          (list[i].move = PvMove /\ list[j].move # PvMove)
             => list[i].score > list[j].score
    /\ \A i, j \in DOMAIN list :
          (IsCaptureEntry(list[i]) /\ ~IsCaptureEntry(list[j]) /\ list[j].move # PvMove)
             => list[i].score > list[j].score

\* C31: whatever the killers and the history hold, the hash move scores above every
\* other move of the list, and every capture above every move that is none, be it
\* scored as a killer or by its history
C31_ScoresTiered ==
    \A PvMove \in {NOMOVE} \cup {entry.move : entry \in Range(Move_GenerateAll(board))} :
       Tiered(GenerateScored(board, PvMove), PvMove)

=============================================================================
